---------------------------- MODULE Spec2Model ----------------------------
(***************************************************************************)
(* State-machine model of the generation orchestrator's core components:   *)
(*   - KnowledgeStore (versioned documents, optimistic locking)            *)
(*   - BaseAgent (callLLM budget check, runAgentLoop)                      *)
(*   - ResponseHandler (pending questions, answers, timers)                *)
(*   - CircuitBreaker (execute / loadStatus / persistStatus)               *)
(* Each component has its own specification (SpecKS, SpecKSW, SpecAgent,   *)
(* SpecRH, FairSpecRH, SpecCB, SpecCBSeq) over the shared variable list;   *)
(* a component's actions leave the other components' variables unchanged.  *)
(***************************************************************************)
EXTENDS Integers, Sequences, FiniteSets, TLC

VARIABLES
    \* ---- KnowledgeStore ----
    documents,      \* Map<string, VersionedDocument>: function on the stored paths
    ksSnapshot,     \* the Map last returned by getSnapshot() (held by the caller)
    ksResult,       \* what the last store operation returned
    ksEvent,        \* the event emitted by the last store operation
    ksCall,         \* history: the arguments of the last store operation
    nWrites,        \* history: number of successful writes per path
    wPc, wPath, wExp, wContent, wRes,  \* two optimistic writers (read, then write)
    \* ---- BaseAgent ----
    maxCalls,       \* this.maxCalls (V14_AGENT_BUDGETS[name].maxCalls)
    callsMade,      \* this.callsMade
    agStatus,       \* this.state.status
    iterations,     \* runAgentLoop: iterations (= state.iterationsUsed)
    loopPc,         \* runAgentLoop position: idle, top, calling, done
    loopOutcome,    \* how the last runAgentLoop ended
    response,       \* the last LLMResponse: stopReason and number of tool_use blocks
    llmCalls,       \* history: requests sent to client.messages.create
    loopCalls,      \* history: requests sent during the current runAgentLoop
    runs,           \* history: number of run() invocations
    agPushed,       \* the messages the latest processed turn pushed onto messages
    agResult,       \* the AgentResult run() returned
    \* ---- ResponseHandler ----
    pendingQuestions, \* Map<key, PendingQuestion>: sessionId, questionId, and the
                      \* waitForResponse call whose resolve and timeout it holds
    callState,      \* per waitForResponse call: unused, suspended, resolved
    callKey,        \* per call: the key it registered under
    callResult,     \* per call: the UserResponse its promise resolved with
    timer,          \* per call: its setTimeout: none, armed, cleared, fired
    resolveCount,   \* history: how often the call's resolve() was invoked
    rhCall,         \* history: the last ResponseHandler operation
    rhReturn,       \* what that operation returned
    dupSeen,        \* history: some key was registered while it was pending
    \* ---- CircuitBreaker ----
    cbState,        \* per breaker instance: this.state
    cbFailures,     \* per instance: this.failures
    cbLastFailure,  \* per instance: this.lastFailure (Null or a time)
    redis,          \* the shared store: the keys name:failures, :lastFailure, :state
    redisUp,        \* whether the store answers (else every get/set rejects)
    now,            \* Date.now()
    cbPc,           \* per execute() call: its position
    cbInst,         \* per call: the breaker instance it runs on
    cbTmp,          \* per call: the values loadStatus has read so far
    cbProbe,        \* per call: it went through the OPEN -> HALF_OPEN branch
    cbOutcome,      \* per call: how the last execute() ended
    cbStreak,       \* history: consecutive failed calls of fn seen by the breaker
    cbOverlap,      \* history: fn was invoked while a HALF_OPEN probe was in flight
    cbExecs,        \* history: execute() calls started where calls may overlap
    cbFailAt,       \* history: per instance, when fn last failed on its breaker
    \* ---- n8n callback route ----
    taskStatus,     \* request_tasks.status of the task the callbacks are about
    n8Pc,           \* per delivery: the position of its POST handler
    n8Payload,      \* per delivery: the request it carries
    n8Response,     \* per delivery: the HTTP response
    n8Applied,      \* per delivery: the side effects its handler has applied
    n8Terminal,     \* history: per delivery, the task was terminal on arrival
    \* ---- Orchestrator ----
    smPhase,        \* StateMachine: the current phase
    smHistory,      \* StateMachine: the phases entered, in order
    smIllegal,      \* history: a requested transition was not in the table
    orPc,           \* position of run()
    orPhase,        \* the phase runPhase is executing
    skipDeploy,     \* options.skipDeploy
    phaseStatus,    \* per phase: the status the emitted phase events give it
    reqDoc,         \* /requirements/main.json exists in the knowledge store
    planDoc,        \* /plan/main.json: the requirements its tasks cover
    orFiles,        \* number of files in the sandbox
    agentSteps,     \* steps the running agent has made
    lastCoverage,   \* history: result of the latest validatePlanCoverage
    lastVerification, \* history: result of the latest verification agent run
    backCount,      \* history: backward transitions requested
    orActor,        \* history: who made the last step
    terminalEvent,  \* the generation:completed / generation:failed event
    orResult,       \* the GenerationResult run() returned
    sseSubscribed,  \* the feed's handler is subscribed to the run's events
    sseClosed,      \* the feed is closed
    sseFeed,        \* the generation and connection events put on the feed
    orCheckpoints,  \* the checkpoints created, oldest first
    \* ---- Plan coverage ----
    covFound,       \* both documents were found in the knowledge store
    covReqs,        \* allReqs: the ids of the explicit and implicit requirements
    covTasks,       \* plan.tasks: the coversRequirements of each task
    covResult,      \* what validatePlanCoverage returned
    \* ---- ask_user ----
    auPc,           \* the agent's ask_user tool call: idle, waiting, done
    auType,         \* the type of the question asked: choice or freeform
    auAsked,        \* questions asked so far
    auWaited,       \* milliseconds since the question was asked
    auSubmitted,    \* the answer the user has sent for the question, if any
    auTimedOut,     \* history: the wait was ended by the timer
    auReceived,     \* response of the USER_INPUT_RECEIVED event
    auResult,       \* the ToolResult the agent got for the call
    \* ---- SessionManager ----
    seNow,          \* Date.now()
    sePresent,      \* the session is in the sessions map
    seCreatedAt,    \* session.createdAt
    seLastActivity, \* session.lastActivity
    seStatus,       \* session.status
    seRun,          \* orchestrator.run() of the session: none, running, its outcome
    seProgress,     \* steps run() has made
    seAborted,      \* history: abort() of the session returned true
    seCompletedAt,  \* history: Date.now() when the run completed
    seEvictedAt,    \* history: Date.now() when cleanup deleted the session
    \* ---- Intake and the readers of its document ----
    inStore,        \* the documents of the run's KnowledgeStore
    inPc,           \* where the run is: hermes, research, architecture, done
    inTool,         \* the ToolResult of the latest write tool call
    inWrites,       \* write tool calls made
    inHermes,       \* the AgentResult of the intake agent: none, success, failed
    inAthenaRead,   \* what Athena.run read at the requirements path
    \* ---- MemorySandbox ----
    sbFiles,        \* Map<string, string>: function on the stored keys
    sbEvents,       \* the file events emitted, oldest first
    sbCall,         \* history: the latest file operation and its path
    sbOps,          \* file operations made
    \* ---- Image generation and the campaign budget ----
    imUsed,         \* campaigns.budget_used, in cents
    imReserved,     \* campaigns.budget_reserved, in cents
    imBase,         \* history: budget_reserved before the requests
    imCost,         \* estimatedCost of the requests, in cents
    imPc,           \* each request's position in POST
    imResponse,     \* the HTTP status each request was answered with
    imProvider,     \* provider calls made for each request
    imReleases,     \* history: releases of each request's reservation
    \* ---- Video approval ----
    vdStatus,       \* generation_jobs.status of the video
    vdApproval,     \* generation_jobs.approval_status
    vdApprovedBy,   \* generation_jobs.approved_by: the request that wrote it
    vdPc,           \* each approve request's position in POST
    vdResponse,     \* the HTTP status each approve request was answered with
    vdChanges,      \* status changes made so far
    \* ---- OpenRouter adapter: one completion call and its retry ----
    lmPc,           \* position in generateCompletion
    lmCalls,        \* generateCompletion calls started
    lmAttempts,     \* POSTs to /chat/completions made by the current call
    lmFailure,      \* outcome of the current call's latest POST
    lmRetried,      \* history: failures that were followed by another POST
    lmResult,       \* how the latest call ended
    \* ---- Task retry ----
    rtStatus,       \* request_tasks.status of the task
    rtRetryCount,   \* request_tasks.retry_count
    rtPc,           \* each retry request's position in POST
    rtSeen,         \* the retry_count each request read
    rtForce,        \* each request's force flag
    rtResponse,     \* the HTTP status each request was answered with
    rtAccepted,     \* history: accepted retries without force
    rtRuns          \* history: re-executions started by retries without force

ksVars == <<documents, ksSnapshot, ksResult, ksEvent, ksCall, nWrites,
            wPc, wPath, wExp, wContent, wRes>>

agVars == <<maxCalls, callsMade, agStatus, iterations, loopPc, loopOutcome,
            response, llmCalls, loopCalls, runs, agPushed, agResult>>

rhVars == <<pendingQuestions, callState, callKey, callResult, timer,
            resolveCount, rhCall, rhReturn, dupSeen>>

cbVars == <<cbState, cbFailures, cbLastFailure, redis, redisUp, now, cbPc,
            cbInst, cbTmp, cbProbe, cbOutcome, cbStreak, cbOverlap, cbExecs,
            cbFailAt>>

n8Vars == <<taskStatus, n8Pc, n8Payload, n8Response, n8Applied, n8Terminal>>

orVars == <<smPhase, smHistory, smIllegal, orPc, orPhase, skipDeploy,
            phaseStatus, reqDoc, planDoc, orFiles, agentSteps, lastCoverage,
            lastVerification, backCount, orActor, terminalEvent, orResult,
            sseSubscribed, sseClosed, sseFeed, orCheckpoints>>

covVars == <<covFound, covReqs, covTasks, covResult>>

auVars == <<auPc, auType, auAsked, auWaited, auSubmitted, auTimedOut,
            auReceived, auResult>>

seVars == <<seNow, sePresent, seCreatedAt, seLastActivity, seStatus, seRun,
            seProgress, seAborted, seCompletedAt, seEvictedAt>>

inVars == <<inStore, inPc, inTool, inWrites, inHermes, inAthenaRead>>

sbVars == <<sbFiles, sbEvents, sbCall, sbOps>>

imVars == <<imUsed, imReserved, imBase, imCost, imPc, imResponse,
            imProvider, imReleases>>

vdVars == <<vdStatus, vdApproval, vdApprovedBy, vdPc, vdResponse,
            vdChanges>>

lmVars == <<lmPc, lmCalls, lmAttempts, lmFailure, lmRetried, lmResult>>

rtVars == <<rtStatus, rtRetryCount, rtPc, rtSeen, rtForce, rtResponse,
            rtAccepted, rtRuns>>

vars == <<ksVars, agVars, rhVars, cbVars, n8Vars, orVars, covVars, auVars,
          seVars, inVars, sbVars, imVars, vdVars, lmVars, rtVars>>

\* A component's step leaves the other components as they are
KsOthers == UNCHANGED <<agVars, rhVars, cbVars, n8Vars, orVars, covVars,
                        auVars, seVars, inVars, sbVars, imVars, vdVars,
                        lmVars, rtVars>>
AgOthers == UNCHANGED <<ksVars, rhVars, cbVars, n8Vars, orVars, covVars,
                        auVars, seVars, inVars, sbVars, imVars, vdVars,
                        lmVars, rtVars>>
RhOthers == UNCHANGED <<ksVars, agVars, cbVars, n8Vars, orVars, covVars,
                        auVars, seVars, inVars, sbVars, imVars, vdVars,
                        lmVars, rtVars>>
CbOthers == UNCHANGED <<ksVars, agVars, rhVars, n8Vars, orVars, covVars,
                        auVars, seVars, inVars, sbVars, imVars, vdVars,
                        lmVars, rtVars>>
N8Others == UNCHANGED <<ksVars, agVars, rhVars, cbVars, orVars, covVars,
                        auVars, seVars, inVars, sbVars, imVars, vdVars,
                        lmVars, rtVars>>
OrOthers == UNCHANGED <<ksVars, agVars, rhVars, cbVars, n8Vars, covVars,
                        auVars, seVars, inVars, sbVars, imVars, vdVars,
                        lmVars, rtVars>>
CovOthers == UNCHANGED <<ksVars, agVars, rhVars, cbVars, n8Vars, orVars,
                         auVars, seVars, inVars, sbVars, imVars, vdVars,
                         lmVars, rtVars>>
AuOthers == UNCHANGED <<ksVars, agVars, rhVars, cbVars, n8Vars, orVars,
                        covVars, seVars, inVars, sbVars, imVars, vdVars,
                        lmVars, rtVars>>
SeOthers == UNCHANGED <<ksVars, agVars, rhVars, cbVars, n8Vars, orVars,
                        covVars, auVars, inVars, sbVars, imVars, vdVars,
                        lmVars, rtVars>>
InOthers == UNCHANGED <<ksVars, agVars, rhVars, cbVars, n8Vars, orVars,
                        covVars, auVars, seVars, sbVars, imVars, vdVars,
                        lmVars, rtVars>>
SbOthers == UNCHANGED <<ksVars, agVars, rhVars, cbVars, n8Vars, orVars,
                        covVars, auVars, seVars, inVars, imVars, vdVars,
                        lmVars, rtVars>>
ImOthers == UNCHANGED <<ksVars, agVars, rhVars, cbVars, n8Vars, orVars,
                        covVars, auVars, seVars, inVars, sbVars, vdVars,
                        lmVars, rtVars>>
VdOthers == UNCHANGED <<ksVars, agVars, rhVars, cbVars, n8Vars, orVars,
                        covVars, auVars, seVars, inVars, sbVars, imVars,
                        lmVars, rtVars>>
LmOthers == UNCHANGED <<ksVars, agVars, rhVars, cbVars, n8Vars, orVars,
                        covVars, auVars, seVars, inVars, sbVars, imVars,
                        vdVars, rtVars>>
RtOthers == UNCHANGED <<ksVars, agVars, rhVars, cbVars, n8Vars, orVars,
                        covVars, auVars, seVars, inVars, sbVars, imVars,
                        vdVars, lmVars>>

-----------------------------------------------------------------------------
(***************************************************************************)
(* KnowledgeStore                                                          *)
(***************************************************************************)

\* Bounds of the model
MaxWrites == 2

\* expectedVersion?: number -- the absent argument
Undefined == -1

\* StoreConfig.maxDocumentSize of the modelled store instance
maxDocumentSize == 2

\* The characters the path pattern accepts: [a-zA-Z0-9\/_-]
ValidChars ==
    {"a", "b", "c", "d", "e", "f", "g", "h", "i", "j", "k", "l", "m", "n",
     "o", "p", "q", "r", "s", "t", "u", "v", "w", "x", "y", "z",
     "A", "B", "C", "D", "E", "F", "G", "H", "I", "J", "K", "L", "M", "N",
     "O", "P", "Q", "R", "S", "T", "U", "V", "W", "X", "Y", "Z",
     "0", "1", "2", "3", "4", "5", "6", "7", "8", "9", "/", "_", "-"}

\* The paths callers pass: two well-formed ones and two malformed ones
Paths == { <<"/", "a">>, <<"/", "b">>, <<"a">>, <<"/", "a", "!">> }

\* The contents callers pass; the last one is above maxDocumentSize
Contents == { <<"x">>, <<"x", "x", "x">> }

\* The contents the two optimistic writers pass
WriterContents == { <<"x">>, <<"y">>, <<"x", "x", "x">> }

ExpectedVersions == {Undefined} \cup (0 .. MaxWrites)

\* /^\/[a-zA-Z0-9\/_-]+$/
isValidPath(path) ==
    /\ Len(path) >= 2
    /\ path[1] = "/"
    /\ \A i \in 2 .. Len(path) : path[i] \in ValidChars

\* existing?.version ?? 0
CurrentVersion(docs, path) ==
    IF path \in DOMAIN docs THEN docs[path].version ELSE 0

\* A plausible slip: only a newer document counts as a conflict
VersionConflictOnlyNewer(currentVersion, expectedVersion) ==
    expectedVersion # Undefined /\ currentVersion > expectedVersion

\* A plausible slip: no optimistic-locking check at all
VersionConflictNever(currentVersion, expectedVersion) ==
    FALSE

\* expectedVersion !== undefined && currentVersion !== expectedVersion
VersionConflict(currentVersion, expectedVersion) ==
    expectedVersion # Undefined /\ currentVersion # expectedVersion

\* this.documents.set(path, doc)
MapSet(docs, path, doc) ==
    [q \in (DOMAIN docs) \cup {path} |-> IF q = path THEN doc ELSE docs[q]]

\* this.documents.delete(path)
MapDelete(docs, path) ==
    [q \in (DOMAIN docs) \ {path} |-> docs[q]]

EmptyMap == [q \in {} |-> 0]

NoResult == [op |-> "none"]
NoEvent == [type |-> "none"]
NoCall == [op |-> "none"]
WriteCall(path, content, expectedVersion) ==
    [op |-> "write", path |-> path, content |-> content,
     expectedVersion |-> expectedVersion]

\* The WriteResult and the event of write(path, content, expectedVersion)
\* on the store `docs`; the new store is WriteStore.
WriteResult(docs, path, content, expectedVersion) ==
    LET currentVersion == CurrentVersion(docs, path) IN
    IF ~isValidPath(path) THEN
        [op |-> "write", success |-> FALSE, path |-> path, version |-> -1,
         code |-> "INVALID_PATH"]
    ELSE IF Len(content) > maxDocumentSize THEN
        [op |-> "write", success |-> FALSE, path |-> path, version |-> -1,
         code |-> "CONTENT_TOO_LARGE"]
    ELSE IF VersionConflict(currentVersion, expectedVersion) THEN
        [op |-> "write", success |-> FALSE, path |-> path,
         version |-> currentVersion, code |-> "VERSION_CONFLICT",
         currentVersion |-> currentVersion, expectedVersion |-> expectedVersion]
    ELSE
        [op |-> "write", success |-> TRUE, path |-> path,
         version |-> currentVersion + 1, code |-> "OK"]

WriteStore(docs, path, content, expectedVersion) ==
    IF WriteResult(docs, path, content, expectedVersion).success
    THEN MapSet(docs, path,
                [content |-> content, version |-> CurrentVersion(docs, path) + 1])
    ELSE docs

WriteEvent(docs, path, content, expectedVersion) ==
    LET r == WriteResult(docs, path, content, expectedVersion) IN
    IF r.success THEN
        [type |-> IF path \in DOMAIN docs THEN "KNOWLEDGE_UPDATED"
                  ELSE "KNOWLEDGE_WRITTEN",
         path |-> path, version |-> r.version]
    ELSE IF r.code = "VERSION_CONFLICT" THEN
        [type |-> "KNOWLEDGE_CONFLICT", path |-> path,
         currentVersion |-> r.currentVersion,
         attemptedVersion |-> expectedVersion]
    ELSE NoEvent

KsWritersIdle ==
    /\ KsOthers
    /\ wPc = [w \in {1, 2} |-> "idle"]
    /\ UNCHANGED <<wPc, wPath, wExp, wContent, wRes>>

\* write(path, content, expectedVersion?)
Write(path, content, expectedVersion) ==
    LET r == WriteResult(documents, path, content, expectedVersion) IN
    /\ r.success => nWrites[path] < MaxWrites
    /\ documents' = WriteStore(documents, path, content, expectedVersion)
    /\ ksResult' = r
    /\ ksEvent' = WriteEvent(documents, path, content, expectedVersion)
    /\ ksCall' = WriteCall(path, content, expectedVersion)
    /\ nWrites' = IF r.success THEN [nWrites EXCEPT ![path] = @ + 1] ELSE nWrites
    /\ UNCHANGED ksSnapshot
    /\ KsWritersIdle

\* delete(path)
Delete(path) ==
    /\ documents' = MapDelete(documents, path)
    /\ ksResult' = [op |-> "delete", path |-> path,
                    success |-> path \in DOMAIN documents]
    /\ ksEvent' = IF path \in DOMAIN documents
                  THEN [type |-> "KNOWLEDGE_DELETED", path |-> path]
                  ELSE NoEvent
    /\ ksCall' = [op |-> "delete", path |-> path]
    /\ UNCHANGED <<ksSnapshot, nWrites>>
    /\ KsWritersIdle

\* getSnapshot(): new Map(this.documents)
GetSnapshot ==
    /\ ksSnapshot' = documents
    /\ ksResult' = [op |-> "getSnapshot"]
    /\ ksEvent' = NoEvent
    /\ ksCall' = [op |-> "getSnapshot"]
    /\ UNCHANGED <<documents, nWrites>>
    /\ KsWritersIdle

\* restoreSnapshot(snapshot): this.documents = new Map(snapshot)
RestoreSnapshot ==
    /\ documents' = ksSnapshot
    /\ ksResult' = [op |-> "restoreSnapshot"]
    /\ ksEvent' = NoEvent
    /\ ksCall' = [op |-> "restoreSnapshot"]
    /\ UNCHANGED <<ksSnapshot, nWrites>>
    /\ KsWritersIdle

\* clear()
Clear ==
    /\ documents' = EmptyMap
    /\ ksResult' = [op |-> "clear"]
    /\ ksEvent' = NoEvent
    /\ ksCall' = [op |-> "clear"]
    /\ UNCHANGED <<ksSnapshot, nWrites>>
    /\ KsWritersIdle

KsInit ==
    /\ documents = EmptyMap
    /\ ksSnapshot = EmptyMap
    /\ ksResult = NoResult
    /\ ksEvent = NoEvent
    /\ ksCall = NoCall
    /\ nWrites = [p \in Paths |-> 0]
    /\ wPc = [w \in {1, 2} |-> "idle"]
    /\ wPath = [w \in {1, 2} |-> <<>>]
    /\ wExp = [w \in {1, 2} |-> Undefined]
    /\ wContent = [w \in {1, 2} |-> <<>>]
    /\ wRes = [w \in {1, 2} |-> NoResult]

KsNext ==
    \/ \E p \in Paths, c \in Contents, e \in ExpectedVersions : Write(p, c, e)
    \/ \E p \in Paths : Delete(p)
    \/ GetSnapshot
    \/ RestoreSnapshot
    \/ Clear

KsPark ==
    /\ documents = EmptyMap /\ ksSnapshot = EmptyMap /\ ksResult = NoResult
    /\ ksEvent = NoEvent /\ ksCall = NoCall /\ nWrites = [p \in Paths |-> 0]
    /\ wPc = [w \in {1, 2} |-> "idle"] /\ wPath = [w \in {1, 2} |-> <<>>]
    /\ wExp = [w \in {1, 2} |-> Undefined]
    /\ wContent = [w \in {1, 2} |-> <<>>]
    /\ wRes = [w \in {1, 2} |-> NoResult]

-----------------------------------------------------------------------------
(***************************************************************************)
(* Two optimistic writers on the store (BaseAgent.toolWriteKnowledge):     *)
(* each reads a document, then writes with the version it read, and after  *)
(* a result re-reads and retries.  A document is created by a first write  *)
(* without expectedVersion.                                                *)
(***************************************************************************)
Writers == {1, 2}

\* Bound of the model: successful writes per path by the two writers
MaxWriterWrites == 3

\* write(path, content) on a path that holds no document yet
WriterCreate(w, path, content) ==
    KsOthers /\
    LET r == WriteResult(documents, path, content, Undefined) IN
    /\ wPc[w] = "idle"
    /\ path \notin DOMAIN documents
    /\ r.success => nWrites[path] < MaxWriterWrites
    /\ documents' = WriteStore(documents, path, content, Undefined)
    /\ ksResult' = r
    /\ ksEvent' = WriteEvent(documents, path, content, Undefined)
    /\ ksCall' = WriteCall(path, content, Undefined)
    /\ nWrites' = IF r.success THEN [nWrites EXCEPT ![path] = @ + 1] ELSE nWrites
    /\ UNCHANGED <<ksSnapshot, wPc, wPath, wExp, wContent, wRes>>

\* read(path): the writer keeps the version of the document it got
WriterRead(w, path) ==
    /\ KsOthers
    /\ wPc[w] = "idle"
    /\ path \in DOMAIN documents
    /\ wPc' = [wPc EXCEPT ![w] = "read"]
    /\ wPath' = [wPath EXCEPT ![w] = path]
    /\ wExp' = [wExp EXCEPT ![w] = documents[path].version]
    /\ wContent' = [wContent EXCEPT ![w] = <<>>]
    /\ wRes' = [wRes EXCEPT ![w] = NoResult]
    /\ ksResult' = [op |-> "read", path |-> path]
    /\ ksEvent' = NoEvent
    /\ ksCall' = [op |-> "read", path |-> path]
    /\ UNCHANGED <<documents, ksSnapshot, nWrites>>

\* toolWriteKnowledge({path, content, version}): write(path, content, version)
WriterWrite(w, content) ==
    KsOthers /\
    LET r == WriteResult(documents, wPath[w], content, wExp[w]) IN
    /\ wPc[w] = "read"
    /\ r.success => nWrites[wPath[w]] < MaxWriterWrites
    /\ documents' = WriteStore(documents, wPath[w], content, wExp[w])
    /\ ksResult' = r
    /\ ksEvent' = WriteEvent(documents, wPath[w], content, wExp[w])
    /\ ksCall' = WriteCall(wPath[w], content, wExp[w])
    /\ nWrites' = IF r.success THEN [nWrites EXCEPT ![wPath[w]] = @ + 1]
                  ELSE nWrites
    /\ wPc' = [wPc EXCEPT ![w] = "done"]
    /\ wContent' = [wContent EXCEPT ![w] = content]
    /\ wRes' = [wRes EXCEPT ![w] = r]
    /\ UNCHANGED <<ksSnapshot, wPath, wExp>>

\* the writer gives the result back to its caller and starts over (re-read)
WriterRetry(w) ==
    /\ KsOthers
    /\ wPc[w] = "done"
    /\ wPc' = [wPc EXCEPT ![w] = "idle"]
    /\ UNCHANGED <<documents, ksSnapshot, ksResult, ksEvent, ksCall, nWrites,
                   wPath, wExp, wContent, wRes>>

KsWNext ==
    \/ \E w \in Writers, p \in Paths, c \in WriterContents : WriterCreate(w, p, c)
    \/ \E w \in Writers, p \in Paths : WriterRead(w, p)
    \/ \E w \in Writers, c \in WriterContents : WriterWrite(w, c)
    \/ \E w \in Writers : WriterRetry(w)


-----------------------------------------------------------------------------
(***************************************************************************)
(* BaseAgent: callLLM and runAgentLoop                                     *)
(***************************************************************************)

\* const maxIterations = 50
maxIterations == 50

\* Bounds of the model: the two call budgets an agent is configured with
\* (one below and one above the iteration ceiling), the run() invocations of
\* one agent instance, and the tool_use blocks in one response
MaxCallsSmall == 3
MaxCallsLarge == 51
MaxRuns == 2
MaxTools == 1

StopReasons == {"end_turn", "tool_use", "max_tokens", "stop_sequence"}

\* The texts a turn can carry
Texts == {"text a", "text b"}
NoText == "none"

\* What a tool call of a turn does: it succeeds, its handler returns a
\* failure, its handler throws, or no tool has the name
ToolOutcomes == {"ok", "failed", "threw", "unknown"}
ToolCalls == UNION {[1 .. n -> ToolOutcomes] : n \in 0 .. MaxTools}

NoResponse ==
    [stopReason |-> "none", tools |-> 0, calls |-> <<>>, text |-> NoText]

\* A plausible slip: an exception of the handler is passed on as a success
ExecuteToolUncaught(outcome) ==
    [success |-> outcome \in {"ok", "threw"},
     error |-> CASE outcome = "failed" -> "handler error"
                 [] outcome = "unknown" -> "Unknown tool"
                 [] OTHER -> "none"]

\* executeTool: the ToolResult of handleToolCall, a thrown error caught and
\* turned into a failure, an unknown name answered with a failure
ExecuteTool(outcome) ==
    [success |-> outcome = "ok",
     error |-> CASE outcome = "ok" -> "none"
                 [] outcome = "failed" -> "handler error"
                 [] outcome = "threw" -> "error.message"
                 [] OTHER -> "Unknown tool"]

\* block.id of the k-th tool_use block of a response
ToolUseId(k) == k

\* The tool_use blocks of a response, as they are copied to assistantContent
ToolUseBlocks(calls) ==
    [k \in DOMAIN calls |-> [type |-> "tool_use", id |-> ToolUseId(k)]]

\* A plausible slip: every result carries the id of the first request
ToolResultBlockFirstId(id, result) ==
    [type |-> "tool_result",
     tool_use_id |-> ToolUseId(1),
     content |-> IF result.success THEN "data" ELSE result.error,
     is_error |-> ~result.success]

\* The tool_result block pushed for the ToolResult of the block with that id
ToolResultBlock(id, result) ==
    [type |-> "tool_result",
     tool_use_id |-> id,
     content |-> IF result.success THEN "data" ELSE result.error,
     is_error |-> ~result.success]

\* The messages one processed turn pushes: the assistant message (its text
\* blocks are left out here), then the user message with the tool results
\* if there are any
Pushed(calls) ==
    IF Len(calls) > 0
    THEN <<[role |-> "assistant", content |-> ToolUseBlocks(calls)],
           [role |-> "user",
            content |-> [k \in DOMAIN calls |->
                            ToolResultBlock(ToolUseId(k),
                                            ExecuteTool(calls[k]))]]>>
    ELSE <<[role |-> "assistant", content |-> ToolUseBlocks(calls)]>>

\* createError: a plain object, not an instance of Error
CreateError(code) == [isError |-> FALSE, code |-> code, message |-> code]

NoAgentError == [code |-> "none", message |-> "none"]
NoAgentResult ==
    [returned |-> FALSE, success |-> FALSE, error |-> NoAgentError,
     response |-> NoText]

\* run(): runAgentLoop returned
RunReturns(text) ==
    [returned |-> TRUE, success |-> TRUE, error |-> NoAgentError,
     response |-> text]

\* run(): the catch block
RunCatches(thrown) ==
    [returned |-> TRUE, success |-> FALSE,
     error |-> [code |-> "AGENT_FAILED",
                message |-> IF thrown.isError THEN thrown.message
                            ELSE "Hermes failed"],
     response |-> NoText]

\* finalResponse: the text blocks of the turn that ends the loop
FinalResponse(text) == text

\* A plausible slip: the ceiling is tested with <=
LoopContinuesOffByOne(it) == it <= maxIterations

\* while (iterations < maxIterations)
LoopContinues(it) == it < maxIterations

\* if (this.callsMade >= this.maxCalls) throw AGENT_BUDGET_EXCEEDED
BudgetExhausted(made, max) == made >= max

\* run(): start(), then runAgentLoop(initialMessages)
RunStart ==
    /\ AgOthers
    /\ loopPc \in {"idle", "done"}
    /\ runs < MaxRuns
    /\ runs' = runs + 1
    /\ agStatus' = "active"
    /\ iterations' = 0
    /\ loopCalls' = 0
    /\ loopPc' = "top"
    /\ loopOutcome' = "none"
    /\ response' = NoResponse
    /\ agPushed' = <<>>
    /\ agResult' = NoAgentResult
    /\ UNCHANGED <<maxCalls, callsMade, llmCalls>>

\* The loop test fails: throw AGENT_LOOP_DETECTED (caught by run())
LoopCeiling ==
    /\ AgOthers
    /\ loopPc = "top"
    /\ ~LoopContinues(iterations)
    /\ loopPc' = "done"
    /\ loopOutcome' = "AGENT_LOOP_DETECTED"
    /\ agResult' = RunCatches(CreateError("AGENT_LOOP_DETECTED"))
    /\ agStatus' = "error"
    /\ UNCHANGED agPushed
    /\ UNCHANGED <<maxCalls, callsMade, iterations, response, llmCalls,
                   loopCalls, runs>>

\* One more iteration; callLLM finds the budget exhausted and throws
\* before the client is called
LoopBudgetExceeded ==
    /\ AgOthers
    /\ loopPc = "top"
    /\ LoopContinues(iterations)
    /\ BudgetExhausted(callsMade, maxCalls)
    /\ iterations' = iterations + 1
    /\ loopPc' = "done"
    /\ loopOutcome' = "AGENT_BUDGET_EXCEEDED"
    /\ agResult' = RunCatches(CreateError("AGENT_BUDGET_EXCEEDED"))
    /\ agStatus' = "error"
    /\ UNCHANGED agPushed
    /\ UNCHANGED <<maxCalls, callsMade, response, llmCalls, loopCalls, runs>>

\* One more iteration; callLLM passes the budget check and awaits
\* client.messages.create
LoopCallLLM ==
    /\ AgOthers
    /\ loopPc = "top"
    /\ LoopContinues(iterations)
    /\ ~BudgetExhausted(callsMade, maxCalls)
    /\ iterations' = iterations + 1
    /\ llmCalls' = llmCalls + 1
    /\ loopCalls' = loopCalls + 1
    /\ loopPc' = "calling"
    /\ UNCHANGED <<maxCalls, callsMade, agStatus, loopOutcome, response, runs,
                   agPushed, agResult>>

\* client.messages.create rejects: callLLM throws LLM_API_ERROR
LLMThrows ==
    /\ AgOthers
    /\ loopPc = "calling"
    /\ loopPc' = "done"
    /\ loopOutcome' = "LLM_API_ERROR"
    /\ agResult' = RunCatches(CreateError("LLM_API_ERROR"))
    /\ agStatus' = "error"
    /\ UNCHANGED agPushed
    /\ UNCHANGED <<maxCalls, callsMade, iterations, response, llmCalls,
                   loopCalls, runs>>

\* client.messages.create resolves: usage is tracked, the blocks are
\* processed (each tool executed, its result collected), the messages are
\* pushed, and the loop continues or returns
LLMResponds(stopReason, calls, text) ==
    /\ AgOthers
    /\ loopPc = "calling"
    /\ callsMade' = callsMade + 1
    /\ response' = [stopReason |-> stopReason, tools |-> Len(calls),
                    calls |-> calls, text |-> text]
    /\ agPushed' = Pushed(calls)
    /\ IF Len(calls) > 0 THEN
            \* toolResults.length > 0: continue
            /\ loopPc' = "top"
            /\ UNCHANGED <<loopOutcome, agStatus, agResult>>
       ELSE IF stopReason = "end_turn" THEN
            \* return { messages, finalResponse: textResponse }
            /\ loopPc' = "done"
            /\ loopOutcome' = "returned"
            /\ agResult' = RunReturns(FinalResponse(text))
            /\ agStatus' = "complete"
       ELSE
            \* neither branch: the while loop goes round
            /\ loopPc' = "top"
            /\ UNCHANGED <<loopOutcome, agStatus, agResult>>
    /\ UNCHANGED <<maxCalls, iterations, llmCalls, loopCalls, runs>>

AgInit ==
    /\ maxCalls \in {MaxCallsSmall, MaxCallsLarge}
    /\ callsMade = 0
    /\ agStatus = "idle"
    /\ iterations = 0
    /\ loopPc = "idle"
    /\ loopOutcome = "none"
    /\ response = NoResponse
    /\ llmCalls = 0
    /\ loopCalls = 0
    /\ runs = 0
    /\ agPushed = <<>>
    /\ agResult = NoAgentResult

AgPark ==
    /\ maxCalls = MaxCallsSmall /\ callsMade = 0 /\ agStatus = "idle"
    /\ iterations = 0 /\ loopPc = "idle" /\ loopOutcome = "none"
    /\ response = NoResponse /\ llmCalls = 0 /\ loopCalls = 0 /\ runs = 0
    /\ agPushed = <<>> /\ agResult = NoAgentResult

AgNext ==
    \/ RunStart
    \/ LoopCeiling
    \/ LoopBudgetExceeded
    \/ LoopCallLLM
    \/ LLMThrows
    \/ \E sr \in StopReasons, t \in 0 .. MaxTools :
            LLMResponds(sr, [k \in 1 .. t |-> "ok"], "text a")

\* The first run() of an agent
RunOnce == runs = 0 /\ RunStart

\* One run of an agent, its turns carrying any text and tool calls with any
\* outcome
AgToolsNext ==
    \/ RunOnce
    \/ LoopCeiling
    \/ LoopBudgetExceeded
    \/ LoopCallLLM
    \/ LLMThrows
    \/ \E sr \in StopReasons, calls \in ToolCalls, text \in Texts :
            LLMResponds(sr, calls, text)

\* Bound of the model: the tool_use blocks of one response in the runs that
\* follow the transcript
MaxTranscriptTools == 2

\* The tool calls of such a response: each succeeds or throws
TranscriptCalls ==
    UNION {[1 .. n -> {"ok", "threw"}] : n \in 0 .. MaxTranscriptTools}

\* One run of an agent, its turns carrying several tool calls
AgTranscriptNext ==
    \/ RunOnce
    \/ LoopCeiling
    \/ LoopBudgetExceeded
    \/ LoopCallLLM
    \/ LLMThrows
    \/ \E sr \in StopReasons, calls \in TranscriptCalls :
            LLMResponds(sr, calls, "text a")

-----------------------------------------------------------------------------
(***************************************************************************)
(* ResponseHandler                                                         *)
(***************************************************************************)

\* Bound of the model: waitForResponse invocations
MaxWaits == 2

CallIds == 1 .. MaxWaits

\* Session and question ids (uuid strings: no ":" inside)
SessionIds == { <<"s">>, <<"t">> }
QuestionIds == { <<"q">>, <<"r">> }

\* The answers a user submits
Answers == { "yes" }

\* `${sessionId}:${questionId}`
makeKey(sessionId, questionId) == sessionId \o <<":">> \o questionId

NoUserResponse == [timedOut |-> FALSE, response |-> "none"]
TimedOutResponse == [timedOut |-> TRUE, response |-> ""]

\* A plausible slip: the answered question stays in the pending map
PendingAfterSubmitKept(pending, key) == pending

\* this.pendingQuestions.delete(key)
PendingAfterSubmit(pending, key) == MapDelete(pending, key)

\* pending.resolve(userResponse): the first resolve settles the promise, a
\* later one is ignored
ResolvedState(states, c) == [states EXCEPT ![c] = "resolved"]
ResolvedResult(results, states, c, r) ==
    IF states[c] = "suspended" THEN [results EXCEPT ![c] = r] ELSE results

\* clearTimeout(pending.timeout)
ClearedTimer(timers, c) ==
    IF timers[c] = "armed" THEN [timers EXCEPT ![c] = "cleared"] ELSE timers

\* waitForResponse(sessionId, questionId): arms the timer and registers the
\* pending question (Map.set replaces an entry under the same key)
WaitForResponse(c, sessionId, questionId) ==
    LET key == makeKey(sessionId, questionId) IN
    /\ RhOthers
    /\ callState[c] = "unused"
    /\ \A d \in CallIds : d < c => callState[d] # "unused"
    /\ timer' = [timer EXCEPT ![c] = "armed"]
    /\ pendingQuestions' = MapSet(pendingQuestions, key,
            [sessionId |-> sessionId, questionId |-> questionId, call |-> c])
    /\ callState' = [callState EXCEPT ![c] = "suspended"]
    /\ callKey' = [callKey EXCEPT ![c] = key]
    /\ rhCall' = [op |-> "waitForResponse", key |-> key]
    /\ rhReturn' = "promise"
    /\ dupSeen' = (dupSeen \/ key \in DOMAIN pendingQuestions)
    /\ UNCHANGED <<callResult, resolveCount>>

\* The setTimeout callback of call c runs
TimerFires(c) ==
    /\ RhOthers
    /\ timer[c] = "armed"
    /\ timer' = [timer EXCEPT ![c] = "fired"]
    /\ rhCall' = [op |-> "timeout", key |-> callKey[c]]
    /\ rhReturn' = "none"
    /\ IF callKey[c] \in DOMAIN pendingQuestions THEN
            \* the callback resolves its own call's promise
            /\ pendingQuestions' = MapDelete(pendingQuestions, callKey[c])
            /\ callState' = ResolvedState(callState, c)
            /\ callResult' = ResolvedResult(callResult, callState, c,
                                            TimedOutResponse)
            /\ resolveCount' = [resolveCount EXCEPT ![c] = @ + 1]
       ELSE UNCHANGED <<pendingQuestions, callState, callResult, resolveCount>>
    /\ UNCHANGED <<callKey, dupSeen>>

\* submitResponse(sessionId, questionId, response)
SubmitResponse(sessionId, questionId, answer) ==
    LET key == makeKey(sessionId, questionId) IN
    /\ RhOthers
    /\ rhCall' = [op |-> "submitResponse", key |-> key]
    /\ IF key \notin DOMAIN pendingQuestions THEN
            /\ rhReturn' = "false"
            /\ UNCHANGED <<pendingQuestions, callState, callResult, timer,
                           resolveCount>>
       ELSE LET c == pendingQuestions[key].call IN
            /\ timer' = ClearedTimer(timer, c)
            /\ pendingQuestions' = PendingAfterSubmit(pendingQuestions, key)
            /\ callState' = ResolvedState(callState, c)
            /\ callResult' = ResolvedResult(callResult, callState, c,
                                [timedOut |-> FALSE, response |-> answer])
            /\ resolveCount' = [resolveCount EXCEPT ![c] = @ + 1]
            /\ rhReturn' = "true"
    /\ UNCHANGED <<callKey, dupSeen>>

\* cancel(sessionId, questionId)
Cancel(sessionId, questionId) ==
    LET key == makeKey(sessionId, questionId) IN
    /\ RhOthers
    /\ rhCall' = [op |-> "cancel", key |-> key]
    /\ IF key \notin DOMAIN pendingQuestions THEN
            /\ rhReturn' = "false"
            /\ UNCHANGED <<pendingQuestions, callState, callResult, timer,
                           resolveCount>>
       ELSE LET c == pendingQuestions[key].call IN
            /\ timer' = ClearedTimer(timer, c)
            /\ pendingQuestions' = MapDelete(pendingQuestions, key)
            /\ callState' = ResolvedState(callState, c)
            /\ callResult' = ResolvedResult(callResult, callState, c,
                                            TimedOutResponse)
            /\ resolveCount' = [resolveCount EXCEPT ![c] = @ + 1]
            /\ rhReturn' = "true"
    /\ UNCHANGED <<callKey, dupSeen>>

\* cancelSession(sessionId): every pending question of the session
CancelSession(sessionId) ==
    LET keys == {k \in DOMAIN pendingQuestions :
                    pendingQuestions[k].sessionId = sessionId}
        calls == {pendingQuestions[k].call : k \in keys}
    IN
    /\ RhOthers
    /\ rhCall' = [op |-> "cancelSession", key |-> sessionId]
    /\ timer' = [c \in CallIds |->
                    IF c \in calls /\ timer[c] = "armed" THEN "cleared"
                    ELSE timer[c]]
    /\ pendingQuestions' =
            [k \in (DOMAIN pendingQuestions) \ keys |-> pendingQuestions[k]]
    /\ callState' = [c \in CallIds |->
                        IF c \in calls THEN "resolved" ELSE callState[c]]
    /\ callResult' = [c \in CallIds |->
                        IF c \in calls /\ callState[c] = "suspended"
                        THEN TimedOutResponse ELSE callResult[c]]
    /\ resolveCount' = [c \in CallIds |->
                        IF c \in calls THEN resolveCount[c] + 1
                        ELSE resolveCount[c]]
    /\ rhReturn' = ToString(Cardinality(keys))
    /\ UNCHANGED <<callKey, dupSeen>>

RhInit ==
    /\ pendingQuestions = EmptyMap
    /\ callState = [c \in CallIds |-> "unused"]
    /\ callKey = [c \in CallIds |-> <<>>]
    /\ callResult = [c \in CallIds |-> NoUserResponse]
    /\ timer = [c \in CallIds |-> "none"]
    /\ resolveCount = [c \in CallIds |-> 0]
    /\ rhCall = NoCall
    /\ rhReturn = "none"
    /\ dupSeen = FALSE

RhNext ==
    \/ \E c \in CallIds, s \in SessionIds, q \in QuestionIds :
            WaitForResponse(c, s, q)
    \/ \E c \in CallIds : TimerFires(c)
    \/ \E s \in SessionIds, q \in QuestionIds, a \in Answers :
            SubmitResponse(s, q, a)
    \/ \E s \in SessionIds, q \in QuestionIds : Cancel(s, q)
    \/ \E s \in SessionIds : CancelSession(s)

\* setTimeout: an armed timer that is not cleared runs its callback
RhFairness == \A c \in CallIds : WF_vars(TimerFires(c))

-----------------------------------------------------------------------------
(***************************************************************************)
(* CircuitBreaker.  Two breaker instances are constructed with the same    *)
(* name on one store; an execute() call is a process that yields at every  *)
(* await (each redis get and set, and the wrapped function).               *)
(***************************************************************************)

\* opts.threshold ?? 3
threshold == 3

\* opts.resetTimeout of the modelled instances, in clock ticks
resetTimeout == 1

\* Bound of the model: the clock stops here
MaxNow == 6

Breakers == {1, 2}
Calls == {1, 2}

\* null (lastFailure, or a key the store does not hold)
Null == -1
\* the empty string that String(this.lastFailure ?? '') stores for null
Empty == -2

NoTmp == [failures |-> Null, lastFailure |-> Null]

\* A plausible slip: the age of the last failure is not computed
TimeoutElapsedNoLast(t, last) == t > resetTimeout

\* Date.now() - last > this.resetTimeout
TimeoutElapsed(t, last) == t - last > resetTimeout

\* A plausible slip: the threshold is tested with >
ThresholdReachedOffByOne(f) == f > threshold

\* this.failures >= this.threshold
ThresholdReached(f) == f >= threshold

\* The store as persistStatus leaves it one key at a time
RedisSet(r, key, value) ==
    IF redisUp THEN [r EXCEPT ![key] = value] ELSE r

\* failures ? parseInt(failures, 10) : this.failures
LoadedFailures(got, mine) == IF got # Null THEN got ELSE mine
\* last ? Number(last) : this.lastFailure   ('' and null are falsy)
LoadedLastFailure(got, mine) == IF got \notin {Null, Empty} THEN got ELSE mine
\* (state as CircuitState) ?? this.state
LoadedState(got, mine) == IF got # "null" THEN got ELSE mine

\* String(this.lastFailure ?? '')
StoredLastFailure(last) == IF last = Null THEN Empty ELSE last

CbQuiet == \A c \in Calls : cbPc[c] = "idle"

\* A plausible slip: a load that fails leaves the breaker open
StateAfterLoadErrorOpen(mine) == "OPEN"

\* loadStatus, the store failing: the first get throws, the catch ignores
\* the error and no field has been assigned
StateAfterLoadError(mine) == mine

\* execute(fn) is called on instance i: loadStatus issues its first get
CbExecute(c, i) ==
    /\ CbOthers
    /\ UNCHANGED cbFailAt
    /\ cbPc[c] = "idle"
    /\ cbInst' = [cbInst EXCEPT ![c] = i]
    /\ cbTmp' = [cbTmp EXCEPT ![c] = [NoTmp EXCEPT !.failures = redis.failures]]
    /\ cbPc' = [cbPc EXCEPT ![c] = IF redisUp THEN "load2" ELSE "check"]
    /\ cbProbe' = [cbProbe EXCEPT ![c] = FALSE]
    /\ cbOutcome' = [cbOutcome EXCEPT ![c] = "none"]
    /\ cbState' = IF redisUp THEN cbState
                  ELSE [cbState EXCEPT ![i] = StateAfterLoadError(@)]
    /\ UNCHANGED <<cbFailures, cbLastFailure, redis, redisUp, now, cbStreak,
                   cbOverlap>>

\* loadStatus: the second get
CbLoad2(c) ==
    /\ CbOthers
    /\ UNCHANGED cbFailAt
    /\ UNCHANGED cbExecs
    /\ cbPc[c] = "load2"
    /\ cbTmp' = [cbTmp EXCEPT ![c].lastFailure = redis.lastFailure]
    /\ cbPc' = [cbPc EXCEPT ![c] = "load3"]
    /\ UNCHANGED <<cbState, cbFailures, cbLastFailure, redis, redisUp, now,
                   cbInst, cbProbe, cbOutcome, cbStreak, cbOverlap>>

\* loadStatus: the third get, then the three assignments
CbLoad3(c) ==
    LET i == cbInst[c] IN
    /\ CbOthers
    /\ UNCHANGED cbFailAt
    /\ UNCHANGED cbExecs
    /\ cbPc[c] = "load3"
    /\ cbFailures' = [cbFailures EXCEPT
                        ![i] = LoadedFailures(cbTmp[c].failures, @)]
    /\ cbLastFailure' = [cbLastFailure EXCEPT
                        ![i] = LoadedLastFailure(cbTmp[c].lastFailure, @)]
    /\ cbState' = [cbState EXCEPT ![i] = LoadedState(redis.state, @)]
    /\ cbTmp' = [cbTmp EXCEPT ![c] = NoTmp]
    /\ cbPc' = [cbPc EXCEPT ![c] = "check"]
    /\ UNCHANGED <<redis, redisUp, now, cbInst, cbProbe, cbOutcome, cbStreak,
                   cbOverlap>>

\* execute, after loadStatus: an OPEN breaker either throws or turns
\* HALF_OPEN; then fn() is invoked
CbCheck(c) ==
    LET i == cbInst[c]
        last == IF cbLastFailure[i] = Null THEN 0 ELSE cbLastFailure[i]
        open == cbState[i] = "OPEN"
    IN
    /\ CbOthers
    /\ UNCHANGED cbFailAt
    /\ UNCHANGED cbExecs
    /\ cbPc[c] = "check"
    /\ IF open /\ ~TimeoutElapsed(now, last) THEN
            \* throw new Error(`Circuit breaker ... is OPEN`)
            /\ cbPc' = [cbPc EXCEPT ![c] = "idle"]
            /\ cbOutcome' = [cbOutcome EXCEPT ![c] = "CIRCUIT_OPEN"]
            /\ UNCHANGED <<cbState, cbProbe, cbOverlap>>
       ELSE
            /\ cbState' = IF open THEN [cbState EXCEPT ![i] = "HALF_OPEN"]
                          ELSE cbState
            /\ cbProbe' = [cbProbe EXCEPT ![c] = open]
            /\ cbPc' = [cbPc EXCEPT ![c] = "running"]
            /\ cbOverlap' = (cbOverlap \/ \E d \in Calls \ {c} :
                                cbPc[d] = "running" /\ cbProbe[d])
            /\ UNCHANGED cbOutcome
    /\ UNCHANGED <<cbFailures, cbLastFailure, redis, redisUp, now, cbInst,
                   cbTmp, cbStreak>>

\* A plausible slip: a success leaves the failure count as it was
FailuresAfterSuccessKept(f) == f

\* this.failures = 0
FailuresAfterSuccess(f) == 0

\* The instances that count a call of instance i as one of their breaker's
StreakScope(i) == IF redisUp THEN Breakers ELSE {i}

\* fn() resolves: the success branch, then persistStatus issues its first set
CbFnSucceeds(c) ==
    LET i == cbInst[c] IN
    /\ CbOthers
    /\ UNCHANGED cbFailAt
    /\ UNCHANGED cbExecs
    /\ cbPc[c] = "running"
    /\ cbFailures' = [cbFailures EXCEPT ![i] = FailuresAfterSuccess(@)]
    /\ cbLastFailure' = [cbLastFailure EXCEPT ![i] = Null]
    /\ cbState' = [cbState EXCEPT ![i] = "CLOSED"]
    /\ redis' = RedisSet(redis, "failures", FailuresAfterSuccess(cbFailures[i]))
    /\ cbPc' = [cbPc EXCEPT ![c] = "persist2"]
    /\ cbOutcome' = [cbOutcome EXCEPT ![c] = "result"]
    /\ cbStreak' = [j \in Breakers |->
                        IF j \in StreakScope(i) THEN 0 ELSE cbStreak[j]]
    /\ UNCHANGED <<redisUp, now, cbInst, cbTmp, cbProbe, cbOverlap>>

\* fn() rejects: the failure branch, then persistStatus issues its first set
CbFnFails(c) ==
    LET i == cbInst[c]
        f == cbFailures[i] + 1
    IN
    /\ CbOthers
    /\ cbFailAt' = [j \in Breakers |->
                        IF j \in StreakScope(cbInst[c]) THEN now
                        ELSE cbFailAt[j]]
    /\ UNCHANGED cbExecs
    /\ cbPc[c] = "running"
    /\ cbFailures' = [cbFailures EXCEPT ![i] = f]
    /\ cbLastFailure' = [cbLastFailure EXCEPT ![i] = now]
    /\ cbState' = IF cbState[i] = "HALF_OPEN" \/ ThresholdReached(f)
                  THEN [cbState EXCEPT ![i] = "OPEN"]
                  ELSE cbState
    /\ redis' = RedisSet(redis, "failures", f)
    /\ cbPc' = [cbPc EXCEPT ![c] = "persist2"]
    /\ cbOutcome' = [cbOutcome EXCEPT ![c] = "error"]
    /\ cbStreak' = [j \in Breakers |->
                        IF j \in StreakScope(i) THEN cbStreak[i] + 1
                        ELSE cbStreak[j]]
    /\ UNCHANGED <<redisUp, now, cbInst, cbTmp, cbProbe, cbOverlap>>

\* persistStatus: the second set
CbPersist2(c) ==
    /\ CbOthers
    /\ UNCHANGED cbFailAt
    /\ UNCHANGED cbExecs
    /\ cbPc[c] = "persist2"
    /\ redis' = RedisSet(redis, "lastFailure",
                         StoredLastFailure(cbLastFailure[cbInst[c]]))
    /\ cbPc' = [cbPc EXCEPT ![c] = "persist3"]
    /\ UNCHANGED <<cbState, cbFailures, cbLastFailure, redisUp, now, cbInst,
                   cbTmp, cbProbe, cbOutcome, cbStreak, cbOverlap>>

\* persistStatus: the third set; execute returns the result or rethrows
CbPersist3(c) ==
    /\ CbOthers
    /\ UNCHANGED cbFailAt
    /\ UNCHANGED cbExecs
    /\ cbPc[c] = "persist3"
    /\ redis' = RedisSet(redis, "state", cbState[cbInst[c]])
    /\ cbPc' = [cbPc EXCEPT ![c] = "idle"]
    /\ cbProbe' = [cbProbe EXCEPT ![c] = FALSE]
    /\ UNCHANGED <<cbState, cbFailures, cbLastFailure, redisUp, now, cbInst,
                   cbTmp, cbOutcome, cbStreak, cbOverlap>>

\* Time passes
Tick ==
    /\ CbOthers
    /\ UNCHANGED cbFailAt
    /\ UNCHANGED cbExecs
    /\ now < MaxNow
    /\ now' = now + 1
    /\ UNCHANGED <<cbState, cbFailures, cbLastFailure, redis, redisUp, cbPc,
                   cbInst, cbTmp, cbProbe, cbOutcome, cbStreak, cbOverlap>>

CbInit ==
    /\ cbState = [i \in Breakers |-> "CLOSED"]
    /\ cbFailures = [i \in Breakers |-> 0]
    /\ cbLastFailure = [i \in Breakers |-> Null]
    /\ redis = [failures |-> Null, lastFailure |-> Null, state |-> "null"]
    /\ redisUp \in BOOLEAN
    /\ now = resetTimeout + 1
    /\ cbPc = [c \in Calls |-> "idle"]
    /\ cbInst = [c \in Calls |-> 1]
    /\ cbTmp = [c \in Calls |-> NoTmp]
    /\ cbProbe = [c \in Calls |-> FALSE]
    /\ cbOutcome = [c \in Calls |-> "none"]
    /\ cbStreak = [i \in Breakers |-> 0]
    /\ cbOverlap = FALSE
    /\ cbExecs = 0
    /\ cbFailAt = [i \in Breakers |-> Null]

CbPark ==
    /\ cbState = [i \in Breakers |-> "CLOSED"]
    /\ cbFailures = [i \in Breakers |-> 0]
    /\ cbLastFailure = [i \in Breakers |-> Null]
    /\ redis = [failures |-> Null, lastFailure |-> Null, state |-> "null"]
    /\ redisUp = TRUE
    /\ now = resetTimeout + 1
    /\ cbPc = [c \in Calls |-> "idle"]
    /\ cbInst = [c \in Calls |-> 1]
    /\ cbTmp = [c \in Calls |-> NoTmp]
    /\ cbProbe = [c \in Calls |-> FALSE]
    /\ cbOutcome = [c \in Calls |-> "none"]
    /\ cbStreak = [i \in Breakers |-> 0]
    /\ cbOverlap = FALSE
    /\ cbExecs = 0
    /\ cbFailAt = [i \in Breakers |-> Null]

\* Bound of the model: execute() calls started where calls may overlap
MaxExecs == 5

\* An execute() call that may overlap the calls in flight
CbCall(c, i) ==
    /\ cbExecs < MaxExecs
    /\ cbExecs' = cbExecs + 1
    /\ CbExecute(c, i)

\* An execute() call made when no call is in flight
CbSeqCall(i) ==
    /\ CbQuiet
    /\ UNCHANGED cbExecs
    /\ CbExecute(1, i)

\* Bound of the model: the clock stops here where calls may overlap
MaxOverlapNow == 4

\* Time passes while calls may overlap
CbTick ==
    /\ now < MaxOverlapNow
    /\ Tick

\* execute() calls may overlap
CbNext ==
    \/ \E c \in Calls, i \in Breakers : CbCall(c, i)
    \/ \E c \in Calls : CbLoad2(c)
    \/ \E c \in Calls : CbLoad3(c)
    \/ \E c \in Calls : CbCheck(c)
    \/ \E c \in Calls : CbFnSucceeds(c)
    \/ \E c \in Calls : CbFnFails(c)
    \/ \E c \in Calls : CbPersist2(c)
    \/ \E c \in Calls : CbPersist3(c)
    \/ CbTick

\* execute() calls one after the other: a call starts when none is in flight
CbSeqNext ==
    \/ \E i \in Breakers : CbSeqCall(i)
    \/ \E c \in Calls : CbLoad2(c)
    \/ \E c \in Calls : CbLoad3(c)
    \/ \E c \in Calls : CbCheck(c)
    \/ \E c \in Calls : CbFnSucceeds(c)
    \/ \E c \in Calls : CbFnFails(c)
    \/ \E c \in Calls : CbPersist2(c)
    \/ \E c \in Calls : CbPersist3(c)
    \/ Tick

-----------------------------------------------------------------------------
(***************************************************************************)
(* The n8n callback route (POST /api/v1/callbacks/n8n).  A delivery is one *)
(* HTTP request; its handler yields at every awaited database or logger    *)
(* call, so the handlers of several deliveries interleave.                 *)
(***************************************************************************)

\* Bound of the model: the deliveries that arrive
MaxDeliveries == 2

Deliveries == 1 .. MaxDeliveries

TaskStatuses == {"pending", "in_progress", "completed", "failed"}
TerminalStatuses == {"completed", "failed"}

\* A signed, complete callback for the task or for a task that does not exist
GoodPayloads ==
    [status : {"success", "error"}, executionId : BOOLEAN,
     known : BOOLEAN, signature : {"valid"}, fields : {TRUE}]

\* Callbacks turned away before the task is looked up.  A signature is
\* valid, missing, invalid (a wrong value as long as the digest) or short
\* (a value of another length than the digest)
BadPayloads ==
    [status : {"success"}, executionId : {TRUE}, known : {TRUE},
     signature : {"missing", "invalid", "short"}, fields : {TRUE}]
    \cup
    [status : {"success"}, executionId : {TRUE}, known : {TRUE},
     signature : {"valid"}, fields : {FALSE}]

Payloads == GoodPayloads \cup BadPayloads

NoPayload ==
    [status |-> "none", executionId |-> FALSE, known |-> FALSE,
     signature |-> "none", fields |-> FALSE]

NoHttp == [code |-> 0, success |-> FALSE]
Http(code, success) == [code |-> code, success |-> success]

\* A plausible slip: the status of the task is not looked at
SkipsProcessingNever(status) == FALSE

\* task.status !== 'in_progress'
SkipsProcessing(status) == status # "in_progress"

\* The handler of delivery d has applied side effect e
N8Apply(d, e) == n8Applied' = [n8Applied EXCEPT ![d] = @ \cup {e}]

\* The handler of delivery d answers
N8Respond(d, code, success) ==
    /\ n8Response' = [n8Response EXCEPT ![d] = Http(code, success)]
    /\ n8Pc' = [n8Pc EXCEPT ![d] = "done"]

\* The signature check: the status it answers with, 0 if the request passes.
\* crypto.timingSafeEqual throws on buffers of different lengths, and the
\* catch of the handler answers 500
SignatureCheck(signature) ==
    CASE signature = "missing" -> 401
      [] signature = "short" -> 500
      [] signature = "invalid" -> 401
      [] OTHER -> 0

\* POST arrives: signature and required fields are checked before anything
\* is read (N8N_WEBHOOK_SECRET is configured)
N8Post(d, payload) ==
    /\ N8Others
    /\ n8Pc[d] = "idle"
    /\ n8Payload' = [n8Payload EXCEPT ![d] = payload]
    /\ n8Terminal' = [n8Terminal EXCEPT ![d] = taskStatus \in TerminalStatuses]
    /\ IF SignatureCheck(payload.signature) # 0
       THEN N8Respond(d, SignatureCheck(payload.signature), FALSE)
       ELSE IF ~payload.fields THEN N8Respond(d, 400, FALSE)
       ELSE /\ n8Pc' = [n8Pc EXCEPT ![d] = "select"]
            /\ UNCHANGED n8Response
    /\ UNCHANGED <<taskStatus, n8Applied>>

\* The task row is read; a task that is not in progress ends the handler
N8Select(d) ==
    /\ N8Others
    /\ n8Pc[d] = "select"
    /\ IF ~n8Payload[d].known THEN N8Respond(d, 404, FALSE)
       ELSE IF SkipsProcessing(taskStatus) THEN N8Respond(d, 200, TRUE)
       ELSE /\ n8Pc' = [n8Pc EXCEPT ![d] =
                    IF n8Payload[d].status = "success" /\ n8Payload[d].executionId
                    THEN "insert" ELSE "update"]
            /\ UNCHANGED n8Response
    /\ UNCHANGED <<taskStatus, n8Payload, n8Applied, n8Terminal>>

\* provider_metadata insert
N8Insert(d) ==
    /\ N8Others
    /\ n8Pc[d] = "insert"
    /\ N8Apply(d, "metadata")
    /\ n8Pc' = [n8Pc EXCEPT ![d] = "update"]
    /\ UNCHANGED <<taskStatus, n8Payload, n8Response, n8Terminal>>

\* request_tasks update to completed or failed
N8Update(d) ==
    /\ N8Others
    /\ n8Pc[d] = "update"
    /\ taskStatus' = IF n8Payload[d].status = "success" THEN "completed"
                     ELSE "failed"
    /\ N8Apply(d, "update")
    /\ n8Pc' = [n8Pc EXCEPT ![d] = "logTask"]
    /\ UNCHANGED <<n8Payload, n8Response, n8Terminal>>

\* eventLogger.logTaskCompleted / logTaskFailed
N8LogTask(d) ==
    /\ N8Others
    /\ n8Pc[d] = "logTask"
    /\ N8Apply(d, IF n8Payload[d].status = "success" THEN "completedEvent"
                  ELSE "failedEvent")
    /\ n8Pc' = [n8Pc EXCEPT ![d] = "logCallback"]
    /\ UNCHANGED <<taskStatus, n8Payload, n8Response, n8Terminal>>

\* eventLogger.logProviderCallback
N8LogCallback(d) ==
    /\ N8Others
    /\ n8Pc[d] = "logCallback"
    /\ N8Apply(d, "callbackEvent")
    /\ n8Pc' = [n8Pc EXCEPT ![d] = "resume"]
    /\ UNCHANGED <<taskStatus, n8Payload, n8Response, n8Terminal>>

\* requestOrchestrator.resumeRequest, then the success response
N8Resume(d) ==
    /\ N8Others
    /\ n8Pc[d] = "resume"
    /\ N8Apply(d, "resume")
    /\ N8Respond(d, 200, TRUE)
    /\ UNCHANGED <<taskStatus, n8Payload, n8Terminal>>

N8Init ==
    /\ taskStatus \in TaskStatuses
    /\ n8Pc = [d \in Deliveries |-> "idle"]
    /\ n8Payload = [d \in Deliveries |-> NoPayload]
    /\ n8Response = [d \in Deliveries |-> NoHttp]
    /\ n8Applied = [d \in Deliveries |-> {}]
    /\ n8Terminal = [d \in Deliveries |-> FALSE]

N8Park ==
    /\ taskStatus = "in_progress"
    /\ n8Pc = [d \in Deliveries |-> "idle"]
    /\ n8Payload = [d \in Deliveries |-> NoPayload]
    /\ n8Response = [d \in Deliveries |-> NoHttp]
    /\ n8Applied = [d \in Deliveries |-> {}]
    /\ n8Terminal = [d \in Deliveries |-> FALSE]

N8Next ==
    \/ \E d \in Deliveries, payload \in Payloads : N8Post(d, payload)
    \/ \E d \in Deliveries : N8Select(d)
    \/ \E d \in Deliveries : N8Insert(d)
    \/ \E d \in Deliveries : N8Update(d)
    \/ \E d \in Deliveries : N8LogTask(d)
    \/ \E d \in Deliveries : N8LogCallback(d)
    \/ \E d \in Deliveries : N8Resume(d)

-----------------------------------------------------------------------------
(***************************************************************************)
(* Orchestrator.run: one generation run.  run() yields while an agent      *)
(* runs, while plan coverage is validated and while a checkpoint is        *)
(* created; everything between two yields is one step.  The StateMachine   *)
(* and its transition table are not part of the sources and follow the     *)
(* specification: a current phase, set by transition(), and a fixed table  *)
(* of each phase's valid next phases.                                      *)
(***************************************************************************)

\* Bound of the model: files the agents write into the sandbox
MaxFiles == 2

\* Bound of the model: steps an agent makes in one run()
MaxAgentSteps == 2

Phases == {"intake", "research", "architecture", "plan_validation",
           "building", "verification", "deployment"}

\* The requirements (explicit and implicit) of /requirements/main.json
Reqs == {1, 2}

\* No /plan/main.json
NoPlan == {0}

\* V14_PHASE_TRANSITIONS: each phase's valid next phases
PhaseTransitions ==
    [ph \in Phases \cup {"idle", "complete", "failed"} |->
        CASE ph = "idle" -> {"intake"}
          [] ph = "intake" -> {"research", "failed"}
          [] ph = "research" -> {"architecture", "failed"}
          [] ph = "architecture" -> {"plan_validation", "failed"}
          [] ph = "plan_validation" -> {"building", "architecture", "failed"}
          [] ph = "building" -> {"verification", "failed"}
          [] ph = "verification" ->
                {"deployment", "complete", "building", "failed"}
          [] ph = "deployment" -> {"complete", "failed"}
          [] OTHER -> {}]

\* StateMachine.transition(to): a state machine value after the call
SmTransition(sm, to) ==
    [current |-> to,
     history |-> Append(sm.history, to),
     illegal |-> sm.illegal \/ to \notin PhaseTransitions[sm.current]]

Sm == [current |-> smPhase, history |-> smHistory, illegal |-> smIllegal]

SetSm(sm) ==
    /\ smPhase' = sm.current
    /\ smHistory' = sm.history
    /\ smIllegal' = sm.illegal

\* handleEvent: PHASE_STARTED makes the phase active
PhaseStarted(status, ph) == [status EXCEPT ![ph] = "active"]

\* A plausible slip: the completed phase is left as it is
PhaseCompletedIgnored(status, ph) == status

\* handleEvent: PHASE_COMPLETED makes the phase completed
PhaseCompleted(status, ph) == [status EXCEPT ![ph] = "completed"]

\* A plausible slip: the coverage is reported complete whatever the plan is
CoverageCompleteAlways(req, plan) == TRUE

\* validatePlanCoverage().isComplete
CoverageComplete(req, plan) ==
    /\ req
    /\ plan # NoPlan
    /\ Reqs \ plan = {}

\* A field the payload or result does not have
Absent == -1

NoTerminalEvent ==
    [type |-> "none", files |-> Absent, documents |-> Absent,
     phase |-> "none"]
NoGenerationResult ==
    [success |-> FALSE, files |-> Absent, documents |-> Absent,
     returned |-> FALSE]

\* The documents the agents have written to the knowledge store
DocumentCount ==
    (IF reqDoc THEN 1 ELSE 0) + (IF planDoc # NoPlan THEN 1 ELSE 0)

\* The agent run by each phase that runs one
PhaseAgent ==
    [ph \in {"intake", "research", "building", "verification", "deployment"}
        |-> CASE ph = "intake" -> "hermes"
              [] ph = "research" -> "athena"
              [] ph = "building" -> "hephaestus"
              [] ph = "verification" -> "apollo"
              [] OTHER -> "artemis"]

\* The position run() waits at once runPhase(ph) has started its body
BodyPc(ph) == IF ph = "plan_validation" THEN "validate" ELSE "agent"

\* A plausible slip: the handler is subscribed only after run() has returned
SubscribedAfterRun == FALSE

\* createSSEStream subscribes its handler before it calls run()
SubscribedBeforeRun == TRUE

\* EventStream.emit: the event reaches the feed if its handler is subscribed
Delivered(feed, subscribed, type) ==
    IF subscribed THEN Append(feed, type) ELSE feed

\* runPhase: this.checkpoints.create('phase_completed')
CheckpointReason(ph) == "phase_completed"

\* CheckpointManager.create(reason): a snapshot of the knowledge store is
\* kept under the reason it is given
CheckpointCreate(list, reason) ==
    Append(list, [tag |-> reason, documents |-> DocumentCount])

\* A plausible slip: verification is followed by building again
NextPhaseBuildsAgain(ph) ==
    CASE ph = "intake" -> "research"
      [] ph = "research" -> "plan_validation"
      [] ph = "plan_validation" -> "building"
      [] ph = "building" -> "verification"
      [] ph = "verification" -> "building"
      [] OTHER -> "complete"

\* The phase run() starts after phase ph ("complete": none is left)
NextPhase(ph) ==
    CASE ph = "intake" -> "research"
      [] ph = "research" -> "plan_validation"
      [] ph = "plan_validation" -> "building"
      [] ph = "building" -> "verification"
      [] ph = "verification" -> IF skipDeploy THEN "complete" ELSE "deployment"
      [] OTHER -> "complete"

\* runPhase(ph) up to the first yield of its body: transition, PHASE_STARTED
OrStartPhase(sm, status, ph) ==
    /\ SetSm(SmTransition(sm, ph))
    /\ phaseStatus' = PhaseStarted(status, ph)
    /\ orPhase' = ph
    /\ orPc' = BodyPc(ph)
    /\ agentSteps' = 0
    /\ UNCHANGED <<terminalEvent, orResult>>

\* The end of the try block: transition to complete, the result, and
\* GENERATION_COMPLETED carrying the result
OrComplete(sm, status) ==
    /\ SetSm(SmTransition(sm, "complete"))
    /\ phaseStatus' = status
    /\ orResult' = [success |-> TRUE, files |-> orFiles,
                     documents |-> Absent, returned |-> TRUE]
    /\ terminalEvent' = [type |-> "generation:completed", files |-> orFiles,
                         documents |-> Absent, phase |-> "none"]
    /\ sseFeed' = Delivered(sseFeed, sseSubscribed, "generation:completed")
    /\ orPc' = "done"
    /\ UNCHANGED <<orPhase, agentSteps>>

\* The catch block: transition to failed, GENERATION_FAILED with
\* { error, phase }, and the result with the sandbox files
OrFail ==
    /\ SetSm(SmTransition(Sm, "failed"))
    /\ terminalEvent' = [type |-> "generation:failed", files |-> Absent,
                         documents |-> Absent, phase |-> "failed"]
    /\ orResult' = [success |-> FALSE, files |-> orFiles,
                     documents |-> Absent, returned |-> TRUE]
    /\ sseFeed' = Delivered(sseFeed, sseSubscribed, "generation:failed")
    /\ orPc' = "done"
    /\ UNCHANGED <<orPhase, phaseStatus, agentSteps>>

\* The body of the phase goes on to the checkpoint
OrToCheckpoint ==
    /\ orPc' = "checkpoint"
    /\ UNCHANGED <<smPhase, smHistory, smIllegal, orPhase, phaseStatus,
                   agentSteps, terminalEvent, orResult, sseFeed>>

\* The stream starts: the handler is subscribed, connection:established is
\* put on the feed and run() is called: GENERATION_STARTED, then the intake
\* phase starts
OrRun ==
    /\ OrOthers
    /\ UNCHANGED orCheckpoints
    /\ orPc = "idle"
    /\ sseSubscribed' = SubscribedBeforeRun
    /\ sseFeed' = Delivered(<<"connection:established">>, sseSubscribed',
                            "generation:started")
    /\ UNCHANGED sseClosed
    /\ OrStartPhase(Sm, phaseStatus, "intake")
    /\ orActor' = "orchestrator"
    /\ UNCHANGED <<skipDeploy, reqDoc, planDoc, orFiles, lastCoverage,
                   lastVerification, backCount>>

\* The running agent makes a step of its loop and may produce an artifact
OrAgentWorks ==
    LET agent == IF orPc = "rerun" THEN "athena" ELSE PhaseAgent[orPhase] IN
    /\ OrOthers
    /\ UNCHANGED orCheckpoints
    /\ UNCHANGED <<sseSubscribed, sseClosed>>
    /\ orPc \in {"agent", "rerun"}
    /\ agentSteps < MaxAgentSteps
    /\ agentSteps' = agentSteps + 1
    /\ UNCHANGED sseFeed
    /\ reqDoc' = (reqDoc \/ agent = "hermes")
    /\ IF agent = "athena" THEN planDoc' \in {{1}, Reqs}
       ELSE planDoc' = planDoc
    /\ orFiles' = IF agent = "hephaestus" /\ orFiles < MaxFiles
                  THEN orFiles + 1 ELSE orFiles
    /\ orActor' = "agent"
    /\ UNCHANGED <<smPhase, smHistory, smIllegal, orPc, orPhase, skipDeploy,
                   phaseStatus, lastCoverage, lastVerification, backCount,
                   terminalEvent, orResult>>

\* The agent of the phase returns its result
OrAgentReturns(success) ==
    /\ OrOthers
    /\ UNCHANGED orCheckpoints
    /\ UNCHANGED <<sseSubscribed, sseClosed>>
    /\ orPc = "agent"
    /\ orActor' = "orchestrator"
    /\ IF orPhase = "verification" THEN
            /\ lastVerification' = IF success THEN "passed" ELSE "failed"
            /\ IF success THEN OrToCheckpoint /\ UNCHANGED backCount
               ELSE \* transition back to building, then runFixLoop
                    /\ SetSm(SmTransition(Sm, "building"))
                    /\ backCount' = backCount + 1
                    /\ orPc' = "fixloop"
                    /\ UNCHANGED <<orPhase, phaseStatus, agentSteps,
                                   terminalEvent, orResult, sseFeed>>
       ELSE
            /\ IF success THEN OrToCheckpoint ELSE OrFail
            /\ UNCHANGED <<lastVerification, backCount>>
    /\ UNCHANGED <<skipDeploy, reqDoc, planDoc, orFiles, lastCoverage>>

\* runFixLoop: fetches the building agent and returns
OrFixLoop ==
    /\ OrOthers
    /\ UNCHANGED orCheckpoints
    /\ UNCHANGED <<sseSubscribed, sseClosed>>
    /\ orPc = "fixloop"
    /\ OrToCheckpoint
    /\ orActor' = "orchestrator"
    /\ UNCHANGED <<skipDeploy, reqDoc, planDoc, orFiles, lastCoverage,
                   lastVerification, backCount>>

\* plan_validation: the first validatePlanCoverage
OrValidate ==
    LET complete == CoverageComplete(reqDoc, planDoc) IN
    /\ OrOthers
    /\ UNCHANGED orCheckpoints
    /\ UNCHANGED <<sseSubscribed, sseClosed>>
    /\ orPc = "validate"
    /\ orActor' = "orchestrator"
    /\ lastCoverage' = IF complete THEN "complete" ELSE "incomplete"
    /\ IF complete THEN OrToCheckpoint /\ UNCHANGED backCount
       ELSE \* transition back to architecture, then re-run athena
            /\ SetSm(SmTransition(Sm, "architecture"))
            /\ backCount' = backCount + 1
            /\ orPc' = "rerun"
            /\ agentSteps' = 0
            /\ UNCHANGED <<orPhase, phaseStatus, terminalEvent, orResult,
                           sseFeed>>
    /\ UNCHANGED <<skipDeploy, reqDoc, planDoc, orFiles, lastVerification>>

\* The re-run of athena returns; its result is not looked at
OrRerunReturns(success) ==
    /\ OrOthers
    /\ UNCHANGED orCheckpoints
    /\ UNCHANGED <<sseSubscribed, sseClosed>>
    /\ orPc = "rerun"
    /\ orActor' = "orchestrator"
    /\ orPc' = "revalidate"
    /\ UNCHANGED <<smPhase, smHistory, smIllegal, orPhase, skipDeploy,
                   phaseStatus, reqDoc, planDoc, orFiles, agentSteps,
                   lastCoverage, lastVerification, backCount, terminalEvent,
                   orResult, sseFeed>>

\* plan_validation: the second validatePlanCoverage
OrRevalidate ==
    LET complete == CoverageComplete(reqDoc, planDoc) IN
    /\ OrOthers
    /\ UNCHANGED orCheckpoints
    /\ UNCHANGED <<sseSubscribed, sseClosed>>
    /\ orPc = "revalidate"
    /\ orActor' = "orchestrator"
    /\ lastCoverage' = IF complete THEN "complete" ELSE "incomplete"
    /\ IF complete THEN OrToCheckpoint ELSE OrFail
    /\ UNCHANGED <<skipDeploy, reqDoc, planDoc, orFiles, lastVerification,
                   backCount>>

\* The checkpoint is created: PHASE_COMPLETED, then the next phase starts
\* or the run completes
OrCheckpointDone ==
    LET status == PhaseCompleted(phaseStatus, orPhase)
        next == NextPhase(orPhase)
    IN
    /\ OrOthers
    /\ orCheckpoints' = CheckpointCreate(orCheckpoints,
                                         CheckpointReason(orPhase))
    /\ UNCHANGED <<sseSubscribed, sseClosed>>
    /\ orPc = "checkpoint"
    /\ orActor' = "orchestrator"
    /\ IF next = "complete" THEN OrComplete(Sm, status)
       ELSE OrStartPhase(Sm, status, next) /\ UNCHANGED sseFeed
    /\ UNCHANGED <<skipDeploy, reqDoc, planDoc, orFiles, lastCoverage,
                   lastVerification, backCount>>

\* run() has returned: generation:result is put on the feed, the handler is
\* unsubscribed and the feed is closed
SseFinish ==
    /\ OrOthers
    /\ UNCHANGED orCheckpoints
    /\ orPc = "done"
    /\ ~sseClosed
    /\ sseFeed' = Append(sseFeed, "generation:result")
    /\ sseSubscribed' = FALSE
    /\ sseClosed' = TRUE
    /\ orActor' = "stream"
    /\ UNCHANGED <<smPhase, smHistory, smIllegal, orPc, orPhase, skipDeploy,
                   phaseStatus, reqDoc, planDoc, orFiles, agentSteps,
                   lastCoverage, lastVerification, backCount, terminalEvent,
                   orResult>>

OrInit ==
    /\ smPhase = "idle"
    /\ smHistory = <<>>
    /\ smIllegal = FALSE
    /\ orPc = "idle"
    /\ orPhase = "none"
    /\ skipDeploy \in BOOLEAN
    /\ phaseStatus = [ph \in Phases |-> "pending"]
    /\ reqDoc = FALSE
    /\ planDoc = NoPlan
    /\ orFiles = 0
    /\ agentSteps = 0
    /\ lastCoverage = "none"
    /\ lastVerification = "none"
    /\ backCount = 0
    /\ orActor = "none"
    /\ terminalEvent = NoTerminalEvent
    /\ orResult = NoGenerationResult
    /\ sseSubscribed = FALSE
    /\ sseClosed = FALSE
    /\ sseFeed = <<>>
    /\ orCheckpoints = <<>>

OrPark ==
    /\ smPhase = "idle"
    /\ smHistory = <<>>
    /\ smIllegal = FALSE
    /\ orPc = "idle"
    /\ orPhase = "none"
    /\ skipDeploy = FALSE
    /\ phaseStatus = [ph \in Phases |-> "pending"]
    /\ reqDoc = FALSE
    /\ planDoc = NoPlan
    /\ orFiles = 0
    /\ agentSteps = 0
    /\ lastCoverage = "none"
    /\ lastVerification = "none"
    /\ backCount = 0
    /\ orActor = "none"
    /\ terminalEvent = NoTerminalEvent
    /\ orResult = NoGenerationResult
    /\ sseSubscribed = FALSE
    /\ sseClosed = FALSE
    /\ sseFeed = <<>>
    /\ orCheckpoints = <<>>

OrNext ==
    \/ OrRun
    \/ OrAgentWorks
    \/ \E success \in BOOLEAN : OrAgentReturns(success)
    \/ OrFixLoop
    \/ OrValidate
    \/ \E success \in BOOLEAN : OrRerunReturns(success)
    \/ OrRevalidate
    \/ OrCheckpointDone
    \/ SseFinish

\* Every awaited call settles: agent loops are bounded and timers fire
OrFairness ==
    /\ WF_vars(OrRun)
    /\ WF_vars(\E success \in BOOLEAN : OrAgentReturns(success))
    /\ WF_vars(OrFixLoop)
    /\ WF_vars(OrValidate)
    /\ WF_vars(\E success \in BOOLEAN : OrRerunReturns(success))
    /\ WF_vars(OrRevalidate)
    /\ WF_vars(OrCheckpointDone)
    /\ WF_vars(SseFinish)

-----------------------------------------------------------------------------
(***************************************************************************)
(* Plan coverage: Orchestrator.validatePlanCoverage as a function of the   *)
(* two documents.  JavaScript numbers are IEEE-754 doubles; the quotient,  *)
(* the product and Math.round are computed on their binary expansions.     *)
(***************************************************************************)
MaxReqs == 40
MaxListed == 3
MaxTasks == 2

\* Significant bits of a double
MantissaBits == 53
\* The arithmetic is done on limbs of LimbBits bits
LimbBits == 18
Limb == 2 ^ LimbBits
\* Bits of the integer part of a quotient, and limbs of its fraction
IntBits == 8
FracLimbs == 4
\* Bits of the factor 100 and of the top limb of a product by it
FactorBits == 7
TopBits == MantissaBits - 2 * LimbBits + FactorBits

ReqIds == {1, 2}
PlanIds == {1, 2, 3}

Zeros(n) == [i \in 1 .. n |-> 0]

\* Bit k (the highest first) of the len low bits of n
BitOf(n, len, k) == (n \div (2 ^ (len - k))) % 2

\* The number whose bits are bits[i .. j]
RECURSIVE BitsValue(_, _, _)
BitsValue(bits, i, j) ==
    IF i > j THEN 0 ELSE 2 * BitsValue(bits, i, j - 1) + bits[j]

\* Position of the first 1 of a bit sequence that has one
LeadingOne(bits) ==
    CHOOSE k \in DOMAIN bits :
        /\ bits[k] = 1
        /\ \A j \in 1 .. (k - 1) : bits[j] = 0

\* bits + 1, for a bit sequence that is not all ones
Increment(bits) ==
    LET z == CHOOSE k \in DOMAIN bits :
                /\ bits[k] = 0
                /\ \A j \in (k + 1) .. Len(bits) : bits[j] = 1
    IN  [i \in DOMAIN bits |-> IF i < z THEN bits[i]
                               ELSE IF i = z THEN 1 ELSE 0]

\* Round to nearest, ties to even: the mantissa of the double nearest to the
\* number whose expansion is bits (sticky: more 1 bits follow), and the
\* position in bits of the mantissa's first bit
RoundToMantissa(bits, sticky) ==
    LET l == LeadingOne(bits)
        kept == SubSeq(bits, l, l + MantissaBits - 1)
        guard == IF l + MantissaBits <= Len(bits)
                 THEN bits[l + MantissaBits] ELSE 0
        rest == sticky \/ \E k \in (l + MantissaBits + 1) .. Len(bits) :
                              bits[k] = 1
        up == guard = 1 /\ (rest \/ kept[MantissaBits] = 1)
    IN  IF ~up THEN [m |-> kept, lead |-> l]
        ELSE IF \A i \in DOMAIN kept : kept[i] = 1
             THEN [m |-> <<1>> \o Zeros(MantissaBits - 1), lead |-> l - 1]
             ELSE [m |-> Increment(kept), lead |-> l]

\* A double: m[i] has the weight 2^(e - i + 1); zero has no 1 bit
DoubleZero == [m |-> Zeros(MantissaBits), e |-> 0]

\* n / d in double arithmetic, for n and d below 2^(IntBits - 1): the
\* quotient is divided out limb by limb, then rounded
DoubleDiv(n, d) ==
    IF n = 0 THEN DoubleZero
    ELSE LET q0 == n \div d
             r0 == n % d
             q1 == (r0 * Limb) \div d
             r1 == (r0 * Limb) % d
             q2 == (r1 * Limb) \div d
             r2 == (r1 * Limb) % d
             q3 == (r2 * Limb) \div d
             r3 == (r2 * Limb) % d
             q4 == (r3 * Limb) \div d
             r4 == (r3 * Limb) % d
             limbs == <<q1, q2, q3, q4>>
             bits == [k \in 1 .. (IntBits + FracLimbs * LimbBits) |->
                        IF k <= IntBits THEN BitOf(q0, IntBits, k)
                        ELSE BitOf(limbs[((k - IntBits - 1) \div LimbBits) + 1],
                                   LimbBits,
                                   ((k - IntBits - 1) % LimbBits) + 1)]
             r == RoundToMantissa(bits, r4 # 0)
         IN  [m |-> r.m, e |-> IntBits - r.lead]

\* x * k in double arithmetic, for a factor k of FactorBits bits: the
\* mantissa is multiplied limb by limb, then rounded
DoubleTimes(x, k) ==
    IF x = DoubleZero THEN DoubleZero
    ELSE LET top == MantissaBits - 2 * LimbBits
             lo == BitsValue(x.m, top + LimbBits + 1, MantissaBits) * k
             mid == BitsValue(x.m, top + 1, top + LimbBits) * k
                        + (lo \div Limb)
             hi == BitsValue(x.m, 1, top) * k + (mid \div Limb)
             bits == [j \in 1 .. (TopBits + 2 * LimbBits) |->
                        IF j <= TopBits THEN BitOf(hi, TopBits, j)
                        ELSE IF j <= TopBits + LimbBits
                             THEN BitOf(mid % Limb, LimbBits, j - TopBits)
                             ELSE BitOf(lo % Limb, LimbBits,
                                        j - TopBits - LimbBits)]
             r == RoundToMantissa(bits, FALSE)
         IN  [m |-> r.m, e |-> x.e + FactorBits + 1 - r.lead]

\* The integer part of a double below 2^30
RECURSIVE IntegerPart(_, _)
IntegerPart(x, i) ==
    IF i > MantissaBits \/ x.e - i + 1 < 0 THEN 0
    ELSE x.m[i] * (2 ^ (x.e - i + 1)) + IntegerPart(x, i + 1)

\* Math.round: the nearest integer, a half rounded up
MathRound(x) ==
    IntegerPart(x, 1)
        + (IF x.e + 2 \in 1 .. MantissaBits THEN x.m[x.e + 2] ELSE 0)

\* coveredReqs: the ids some task of the plan covers
CoveredReqs(tasks) == UNION tasks

\* validatePlanCoverage
ValidatePlanCoverage(found, allReqs, tasks) ==
    IF ~found
    THEN [isComplete |-> FALSE, percentage |-> 0,
          gaps |-> <<"Documents not found">>]
    ELSE LET coveredReqs == CoveredReqs(tasks)
             NotCovered(r) == r \notin coveredReqs
             gaps == SelectSeq(allReqs, NotCovered)
             percentage ==
                IF Len(allReqs) > 0
                THEN DoubleTimes(DoubleDiv(Cardinality(coveredReqs),
                                           Len(allReqs)), 100)
                ELSE DoubleDiv(100, 1)
         IN  [isComplete |-> Len(gaps) = 0,
              percentage |-> MathRound(percentage),
              gaps |-> gaps]

NoCoverage == [isComplete |-> FALSE, percentage |-> -1, gaps |-> <<>>]

\* Requirement lists of up to MaxListed ids, repeated ids included
ListedReqs == UNION {[1 .. n -> ReqIds] : n \in 0 .. MaxListed}

\* Plans of up to MaxTasks tasks, ids that are no requirement included
ListedPlans == {ts \in SUBSET (SUBSET PlanIds) : Cardinality(ts) <= MaxTasks}

\* validatePlanCoverage is called and returns
CovValidate ==
    /\ CovOthers
    /\ covResult = NoCoverage
    /\ covResult' = ValidatePlanCoverage(covFound, covReqs, covTasks)
    /\ UNCHANGED <<covFound, covReqs, covTasks>>

\* The documents: R distinct requirements of which one task covers C, or
\* short lists with every mix of ids
CovInit ==
    /\ covResult = NoCoverage
    /\ \/ \E R \in 1 .. MaxReqs : \E C \in 0 .. R :
            /\ covFound = TRUE
            /\ covReqs = [i \in 1 .. R |-> i]
            /\ covTasks = IF C = 0 THEN {} ELSE {1 .. C}
       \/ /\ covFound \in BOOLEAN
          /\ covReqs \in ListedReqs
          /\ covTasks \in ListedPlans

CovPark ==
    /\ covFound = TRUE
    /\ covReqs = <<>>
    /\ covTasks = {}
    /\ covResult = NoCoverage

CovNext == CovValidate

-----------------------------------------------------------------------------
(***************************************************************************)
(* ask_user: the agent's tool (toolAskUser, BaseAgent.askUser) waiting on  *)
(* the askUser of its context, which is Orchestrator.askUser.  The user    *)
(* answers through PUT /api/generate, that is ResponseHandler.             *)
(* submitResponse.                                                         *)
(***************************************************************************)
\* Bounds of the model: questions one agent asks, and the milliseconds that
\* pass in one step of the clock
MaxQuestions == 4
TickMs == 10000

\* setTimeout(..., 30000) in Orchestrator.askUser
askUserDelay == 30000

\* ResponseHandler: private defaultTimeout = 120000
defaultTimeout == 120000

QuestionTypes == {"choice", "freeform"}
UserAnswers == {"yes", "no"}
NoAnswer == "none"

\* A field a ToolResult's data does not have
NoField == "absent"

NoToolResult == [success |-> FALSE, answer |-> NoAnswer, timedOut |-> NoField,
                 returned |-> FALSE]

\* Orchestrator.askUser: what the promise resolves with when the timer fires
OrchestratorAskUser == [response |-> "", timedOut |-> TRUE]

\* BaseAgent.askUser: return response.response
AgentAskUser(userResponse) == userResponse.response

\* toolAskUser: { success: true, data: { answer: response } }
ToolAskUser(answer) ==
    [success |-> TRUE, answer |-> answer, timedOut |-> NoField,
     returned |-> TRUE]

\* The agent calls ask_user: USER_INPUT_REQUIRED, then context.askUser arms
\* its timer
AuAsk(type) ==
    /\ AuOthers
    /\ auPc \in {"idle", "done"}
    /\ auAsked < MaxQuestions
    /\ auAsked' = auAsked + 1
    /\ auPc' = "waiting"
    /\ auType' = type
    /\ auWaited' = 0
    /\ auSubmitted' = NoAnswer
    /\ auTimedOut' = FALSE
    /\ auReceived' = NoAnswer
    /\ auResult' = NoToolResult

\* Time passes while the timer is armed
AuTick ==
    /\ AuOthers
    /\ auPc = "waiting"
    /\ auWaited < askUserDelay
    /\ auWaited' = IF auWaited + TickMs < askUserDelay
                   THEN auWaited + TickMs ELSE askUserDelay
    /\ UNCHANGED <<auPc, auType, auAsked, auSubmitted, auTimedOut,
                   auReceived, auResult>>

\* PUT /api/generate: submitResponse(sessionId, questionId, response).  No
\* question is pending in the ResponseHandler (waitForResponse is not
\* called), so the answer is dropped and the wait goes on.
AuSubmit(answer) ==
    /\ AuOthers
    /\ auPc = "waiting"
    /\ auSubmitted = NoAnswer
    /\ auSubmitted' = answer
    /\ UNCHANGED <<auPc, auType, auAsked, auWaited, auTimedOut, auReceived,
                   auResult>>

\* The timer of Orchestrator.askUser fires: the promise resolves,
\* BaseAgent.askUser emits USER_INPUT_RECEIVED and returns the response
\* string, toolAskUser wraps it
AuTimerFires ==
    LET answer == AgentAskUser(OrchestratorAskUser) IN
    /\ AuOthers
    /\ auPc = "waiting"
    /\ auWaited = askUserDelay
    /\ auPc' = "done"
    /\ auTimedOut' = OrchestratorAskUser.timedOut
    /\ auReceived' = answer
    /\ auResult' = ToolAskUser(answer)
    /\ UNCHANGED <<auType, auAsked, auWaited, auSubmitted>>

AuInit ==
    /\ auPc = "idle"
    /\ auType = "none"
    /\ auAsked = 0
    /\ auWaited = 0
    /\ auSubmitted = NoAnswer
    /\ auTimedOut = FALSE
    /\ auReceived = NoAnswer
    /\ auResult = NoToolResult

AuPark == AuInit

AuNext ==
    \/ \E type \in QuestionTypes : AuAsk(type)
    \/ AuTick
    \/ \E answer \in UserAnswers : AuSubmit(answer)
    \/ AuTimerFires

-----------------------------------------------------------------------------
(***************************************************************************)
(* SessionManager: one session from register() to its deletion by          *)
(* cleanup().  The clock advances from one run of the cleanup interval to  *)
(* the next; the route registers the session, calls orchestrator.run() and *)
(* unregisters it when run() has returned.                                 *)
(***************************************************************************)
\* private readonly maxSessionAge = 3600000
maxSessionAge == 3600000

\* private readonly cleanupIntervalMs = 60000
cleanupIntervalMs == 60000

\* now - session.lastActivity > 300000
completedGrace == 300000

\* Bounds of the model: runs of the cleanup interval, the latest one at
\* which the session is registered, and the steps of a run
MaxCleanups == 63
MaxRegisterAt == 2
MaxRunSteps == 2

\* No time recorded
Never == -1

\* cleanup(): the session is deleted
CleanupDeletes(t, createdAt, lastActivity, status) ==
    \/ t - createdAt > maxSessionAge
    \/ /\ status \in {"completed", "failed"}
       /\ t - lastActivity > completedGrace

\* register(sessionId, orchestrator), then the stream calls run()
SeRegister ==
    /\ SeOthers
    /\ seRun = "none"
    /\ seNow <= MaxRegisterAt * cleanupIntervalMs
    /\ sePresent' = TRUE
    /\ seCreatedAt' = seNow
    /\ seLastActivity' = seNow
    /\ seStatus' = "active"
    /\ seRun' = "running"
    /\ UNCHANGED <<seNow, seProgress, seAborted, seCompletedAt, seEvictedAt>>

\* run() goes on: it does not look at the session
SeRunStep ==
    /\ SeOthers
    /\ seRun = "running"
    /\ seProgress < MaxRunSteps
    /\ seProgress' = seProgress + 1
    /\ UNCHANGED <<seNow, sePresent, seCreatedAt, seLastActivity, seStatus,
                   seRun, seAborted, seCompletedAt, seEvictedAt>>

\* How orchestrator.run() ends: a result with success, a result without, or
\* a throw
RunOutcomes == {"returned", "failed", "threw"}

\* unregister(): the status written, whatever the run's outcome and the
\* session's status
UnregisterStatus(status, outcome) == "completed"

\* run() has ended, the stream's finally block calls unregister(sessionId)
SeUnregister(outcome) ==
    /\ SeOthers
    /\ seRun = "running"
    /\ seRun' = outcome
    /\ seCompletedAt' = seNow
    /\ seStatus' = IF sePresent THEN UnregisterStatus(seStatus, outcome)
                              ELSE seStatus
    /\ UNCHANGED <<seNow, sePresent, seCreatedAt, seLastActivity, seProgress,
                   seAborted, seEvictedAt>>

\* abort(sessionId) of a session that is active
SeAbort ==
    /\ SeOthers
    /\ sePresent
    /\ seStatus = "active"
    /\ seStatus' = "aborted"
    /\ seAborted' = TRUE
    /\ UNCHANGED <<seNow, sePresent, seCreatedAt, seLastActivity, seRun,
                   seProgress, seCompletedAt, seEvictedAt>>

\* The cleanup interval elapses and cleanup() runs
SeCleanup ==
    LET t == seNow + cleanupIntervalMs
        deleted == sePresent /\ CleanupDeletes(t, seCreatedAt, seLastActivity,
                                               seStatus)
    IN
    /\ SeOthers
    /\ seNow < MaxCleanups * cleanupIntervalMs
    /\ seNow' = t
    /\ sePresent' = (sePresent /\ ~deleted)
    /\ seEvictedAt' = IF deleted THEN t ELSE seEvictedAt
    /\ UNCHANGED <<seCreatedAt, seLastActivity, seStatus, seRun, seProgress,
                   seAborted, seCompletedAt>>

SeInit ==
    /\ seNow = 0
    /\ sePresent = FALSE
    /\ seCreatedAt = Never
    /\ seLastActivity = Never
    /\ seStatus = "none"
    /\ seRun = "none"
    /\ seProgress = 0
    /\ seAborted = FALSE
    /\ seCompletedAt = Never
    /\ seEvictedAt = Never

SePark == SeInit

SeNext ==
    \/ SeRegister
    \/ SeRunStep
    \/ \E outcome \in RunOutcomes : SeUnregister(outcome)
    \/ SeAbort
    \/ SeCleanup

-----------------------------------------------------------------------------
(***************************************************************************)
(* The documents of a run: the intake agent (Hermes) writes the            *)
(* requirements with its write_requirements tool, the agents write with    *)
(* write_knowledge, Athena.run reads the requirements at the start of the  *)
(* next phase.  A path is the sequence of its characters.                  *)
(***************************************************************************)
\* Bound of the model: write tool calls in one run
MaxToolWrites == 4

\* '/requirements/main.json'
RequirementsPath ==
    <<"/", "r", "e", "q", "u", "i", "r", "e", "m", "e", "n", "t", "s", "/",
      "m", "a", "i", "n", ".", "j", "s", "o", "n">>

\* '/plan/main.json'
PlanPath ==
    <<"/", "p", "l", "a", "n", "/", "m", "a", "i", "n", ".", "j", "s", "o",
      "n">>

\* Paths an agent may pass to write_knowledge: the two above and one
\* without a file extension
AgentPaths ==
    {RequirementsPath, PlanPath,
     <<"/", "p", "l", "a", "n", "/", "m", "a", "i", "n">>}

DocContents == { <<"x">>, <<"y">> }

NoWriteTool == [success |-> FALSE, version |-> 0, called |-> FALSE]

\* toolWriteRequirements / toolWriteKnowledge: the ToolResult for a
\* WriteResult
WriteToolResult(r) ==
    [success |-> r.success,
     version |-> IF r.success THEN r.version ELSE 0,
     called |-> TRUE]

\* read(path): the document or null
ReadFinds(docs, path) == path \in DOMAIN docs

InWrite(path, content, expectedVersion) ==
    /\ InOthers
    /\ inWrites < MaxToolWrites
    /\ inWrites' = inWrites + 1
    /\ inStore' = WriteStore(inStore, path, content, expectedVersion)
    /\ inTool' = WriteToolResult(WriteResult(inStore, path, content,
                                             expectedVersion))
    /\ UNCHANGED <<inPc, inHermes, inAthenaRead>>

\* Hermes calls write_requirements: knowledge.write('/requirements/main.json',
\* JSON.stringify(doc))
InWriteRequirements(content) ==
    /\ inPc = "hermes"
    /\ InWrite(RequirementsPath, content, Undefined)

\* An agent calls write_knowledge with a path of its choice
InWriteKnowledge(path, content, expectedVersion) ==
    /\ inPc = "hermes"
    /\ InWrite(path, content, expectedVersion)

\* HermesAgent.run: the loop has ended without throwing
InHermesReturns ==
    /\ InOthers
    /\ inPc = "hermes"
    /\ inHermes' = "success"
    /\ inPc' = "research"
    /\ UNCHANGED <<inStore, inTool, inWrites, inAthenaRead>>

\* HermesAgent.run: the loop threw, the phase fails
InHermesFails ==
    /\ InOthers
    /\ inPc = "hermes"
    /\ inHermes' = "failed"
    /\ inPc' = "done"
    /\ UNCHANGED <<inStore, inTool, inWrites, inAthenaRead>>

\* AthenaAgent.run: read('/requirements/main.json'); without the document
\* it throws KNOWLEDGE_NOT_FOUND and the run fails
InAthenaReads ==
    LET found == ReadFinds(inStore, RequirementsPath) IN
    /\ InOthers
    /\ inPc = "research"
    /\ inAthenaRead' = IF found THEN "found" ELSE "null"
    /\ inPc' = IF found THEN "architecture" ELSE "done"
    /\ UNCHANGED <<inStore, inTool, inWrites, inHermes>>

InInit ==
    /\ inStore = EmptyMap
    /\ inPc = "hermes"
    /\ inTool = NoWriteTool
    /\ inWrites = 0
    /\ inHermes = "none"
    /\ inAthenaRead = "none"

InPark == InInit

InNext ==
    \/ \E content \in DocContents : InWriteRequirements(content)
    \/ \E path \in AgentPaths, content \in DocContents,
          expectedVersion \in {Undefined, 0, 1} :
            InWriteKnowledge(path, content, expectedVersion)
    \/ InHermesReturns
    \/ InHermesFails
    \/ InAthenaReads

-----------------------------------------------------------------------------
(***************************************************************************)
(* MemorySandbox: writeFile and deleteFile.  A path is the sequence of its *)
(* characters.                                                             *)
(***************************************************************************)
\* Bound of the model: file operations on one sandbox
MaxFileOps == 3

\* The paths callers pass: plain ones, and ones with a leading slash, a
\* doubled slash and a backslash
FilePaths ==
    { <<"a">>, <<"b">>, <<"/", "a">>, <<"a", "/", "b">>,
      <<"a", "/", "/", "b">>, <<"a", "\\", "b">> }

FileContents == {"x", "y"}

\* .replace(/\\/g, '/')
BackslashesReplaced(path) ==
    [i \in DOMAIN path |-> IF path[i] = "\\" THEN "/" ELSE path[i]]

\* .replace(/^\/+/, '')
LeadingSlashesRemoved(path) ==
    LET rest == {i \in DOMAIN path : path[i] # "/"}
        first == IF rest = {} THEN Len(path) + 1
                 ELSE CHOOSE i \in rest : \A j \in rest : i <= j
    IN  SubSeq(path, first, Len(path))

\* .replace(/\/+/g, '/')
RECURSIVE SlashRunsCollapsed(_)
SlashRunsCollapsed(path) ==
    IF Len(path) <= 1 THEN path
    ELSE IF path[1] = "/" /\ path[2] = "/" THEN SlashRunsCollapsed(Tail(path))
    ELSE <<path[1]>> \o SlashRunsCollapsed(Tail(path))

\* normalizePath
NormalizePath(path) ==
    SlashRunsCollapsed(LeadingSlashesRemoved(BackslashesReplaced(path)))

\* const existed = this.files.has(path)
Existed(files, path) == path \in DOMAIN files

NoFileCall == [op |-> "none", path |-> <<>>]

\* writeFile(path, content)
SbWriteFile(path, content) ==
    /\ SbOthers
    /\ sbOps < MaxFileOps
    /\ sbOps' = sbOps + 1
    /\ sbFiles' = MapSet(sbFiles, NormalizePath(path), content)
    /\ sbEvents' = Append(sbEvents,
                          [type |-> IF Existed(sbFiles, path)
                                    THEN "file:updated" ELSE "file:created",
                           path |-> path])
    /\ sbCall' = [op |-> "writeFile", path |-> path]

\* deleteFile(path)
SbDeleteFile(path) ==
    LET normalized == NormalizePath(path) IN
    /\ SbOthers
    /\ sbOps < MaxFileOps
    /\ sbOps' = sbOps + 1
    /\ sbFiles' = MapDelete(sbFiles, normalized)
    /\ sbEvents' = IF normalized \in DOMAIN sbFiles
                   THEN Append(sbEvents, [type |-> "file:deleted",
                                          path |-> path])
                   ELSE sbEvents
    /\ sbCall' = [op |-> "deleteFile", path |-> path]

SbInit ==
    /\ sbFiles = EmptyMap
    /\ sbEvents = <<>>
    /\ sbCall = NoFileCall
    /\ sbOps = 0

SbPark == SbInit

SbNext ==
    \/ \E path \in FilePaths, content \in FileContents :
            SbWriteFile(path, content)
    \/ \E path \in FilePaths : SbDeleteFile(path)

-----------------------------------------------------------------------------
(***************************************************************************)
(* POST /api/v1/images/generate against one campaign.  Amounts are in      *)
(* cents.  reserve_budget, update_actual_cost and refund_budget are single *)
(* UPDATE statements; a request yields at each of them and at the provider *)
(* call.                                                                   *)
(***************************************************************************)
\* Bound of the model: concurrent requests
MaxImageRequests == 5

\* The campaign of the budget test: budget_limit_usd = $0.10
budgetLimit == 10

\* getDallECost of a standard 1024x1024 image ($0.04), and the Nano B
\* estimate ($0.01)
dalleCost == 4
nanobCost == 1

ImageRequests == 1 .. MaxImageRequests

\* A plausible slip: the reservations in flight are not counted
ReserveFitsUsedOnly(used, reserved, amount, limit) ==
    used + amount <= limit

\* reserve_budget: (budget_used + budget_reserved + p_amount) <= budget_limit_usd
ReserveFits(used, reserved, amount, limit) ==
    used + reserved + amount <= limit

\* A plausible slip: the refund leaves the reservation in place
RefundedNothing(reserved, amount) == reserved

\* refund_budget: budget_reserved = budget_reserved - p_amount
Refunded(reserved, amount) == reserved - amount

\* cost: the same getDallECost(quality, size) or 0.01 as the estimate
ActualCost(estimated) == estimated

\* reserve_budget, then 402 or the provider call
ImReserve(r) ==
    LET fits == ReserveFits(imUsed, imReserved, imCost, budgetLimit) IN
    /\ ImOthers
    /\ imPc[r] = "idle"
    /\ imReserved' = IF fits THEN imReserved + imCost ELSE imReserved
    /\ imPc' = [imPc EXCEPT ![r] = IF fits THEN "provider" ELSE "done"]
    /\ imResponse' = [imResponse EXCEPT ![r] = IF fits THEN @ ELSE 402]
    /\ imProvider' = [imProvider EXCEPT ![r] = IF fits THEN @ + 1 ELSE @]
    /\ UNCHANGED <<imUsed, imBase, imCost, imReleases>>

\* generateImageDallE / generateImageNanoB resolves
ImProviderOk(r) ==
    /\ ImOthers
    /\ imPc[r] = "provider"
    /\ imPc' = [imPc EXCEPT ![r] = "convert"]
    /\ UNCHANGED <<imUsed, imReserved, imBase, imCost, imResponse,
                   imProvider, imReleases>>

\* The provider call throws: the catch block is entered
ImProviderFails(r) ==
    /\ ImOthers
    /\ imPc[r] = "provider"
    /\ imPc' = [imPc EXCEPT ![r] = "refund"]
    /\ UNCHANGED <<imUsed, imReserved, imBase, imCost, imResponse,
                   imProvider, imReleases>>

\* update_actual_cost, the two inserts and the 200 response
ImConvert(r) ==
    /\ ImOthers
    /\ imPc[r] = "convert"
    /\ imReserved' = imReserved - imCost
    /\ imUsed' = imUsed + ActualCost(imCost)
    /\ imReleases' = [imReleases EXCEPT ![r] = @ + 1]
    /\ imResponse' = [imResponse EXCEPT ![r] = 200]
    /\ imPc' = [imPc EXCEPT ![r] = "done"]
    /\ UNCHANGED <<imBase, imCost, imProvider>>

\* The catch block: refund_budget and the 500 response
ImRefund(r) ==
    /\ ImOthers
    /\ imPc[r] = "refund"
    /\ imReserved' = Refunded(imReserved, imCost)
    /\ imReleases' = [imReleases EXCEPT ![r] = @ + 1]
    /\ imResponse' = [imResponse EXCEPT ![r] = 500]
    /\ imPc' = [imPc EXCEPT ![r] = "done"]
    /\ UNCHANGED <<imUsed, imBase, imCost, imProvider>>

ImInit ==
    /\ imUsed = 0
    /\ imReserved \in {0, 1}
    /\ imBase = imReserved
    /\ imCost \in {dalleCost, nanobCost}
    /\ imPc = [r \in ImageRequests |-> "idle"]
    /\ imResponse = [r \in ImageRequests |-> 0]
    /\ imProvider = [r \in ImageRequests |-> 0]
    /\ imReleases = [r \in ImageRequests |-> 0]

ImPark ==
    /\ imUsed = 0
    /\ imReserved = 0
    /\ imBase = 0
    /\ imCost = dalleCost
    /\ imPc = [r \in ImageRequests |-> "idle"]
    /\ imResponse = [r \in ImageRequests |-> 0]
    /\ imProvider = [r \in ImageRequests |-> 0]
    /\ imReleases = [r \in ImageRequests |-> 0]

ImNext ==
    \/ \E r \in ImageRequests : ImReserve(r)
    \/ \E r \in ImageRequests : ImProviderOk(r)
    \/ \E r \in ImageRequests : ImProviderFails(r)
    \/ \E r \in ImageRequests : ImConvert(r)
    \/ \E r \in ImageRequests : ImRefund(r)

-----------------------------------------------------------------------------
(***************************************************************************)
(* POST /api/v1/videos/[id]/approve for one video.  A request reads the    *)
(* row, tests what it read, and then updates the row; other requests and   *)
(* status changes run between the two database calls.                      *)
(***************************************************************************)
\* Bounds of the model: concurrent approve requests, status changes
MaxApproveRequests == 3
MaxStatusChanges == 2

ApproveRequests == 1 .. MaxApproveRequests

VideoStatuses == {"processing", "completed", "failed"}

NoApprover == "nobody"

\* The tests made on the row that was read: 0 when the update is attempted
FetchCheck(status, approval) ==
    CASE status # "completed" -> 400
      [] approval = "approved" -> 400
      [] OTHER -> 0

\* The rows the UPDATE selects: .eq('job_id', jobId).eq('status', 'completed')
UpdateMatches(status, approval) == status = "completed"

\* select(...).single(), then the two tests
VdFetch(r) ==
    LET code == FetchCheck(vdStatus, vdApproval) IN
    /\ VdOthers
    /\ vdPc[r] = "idle"
    /\ vdPc' = [vdPc EXCEPT ![r] = IF code = 0 THEN "update" ELSE "done"]
    /\ vdResponse' = [vdResponse EXCEPT ![r] = code]
    /\ UNCHANGED <<vdStatus, vdApproval, vdApprovedBy, vdChanges>>

\* update(...).select().single(): no row selected is an error of single(),
\* answered 500
VdUpdate(r) ==
    LET hit == UpdateMatches(vdStatus, vdApproval) IN
    /\ VdOthers
    /\ vdPc[r] = "update"
    /\ vdApproval' = IF hit THEN "approved" ELSE vdApproval
    /\ vdApprovedBy' = IF hit THEN r ELSE vdApprovedBy
    /\ vdResponse' = [vdResponse EXCEPT ![r] = IF hit THEN 200 ELSE 500]
    /\ vdPc' = [vdPc EXCEPT ![r] = "done"]
    /\ UNCHANGED <<vdStatus, vdChanges>>

\* The job's status is changed by its pipeline
VdStatusChange(status) ==
    /\ VdOthers
    /\ vdChanges < MaxStatusChanges
    /\ status # vdStatus
    /\ vdStatus' = status
    /\ vdChanges' = vdChanges + 1
    /\ UNCHANGED <<vdApproval, vdApprovedBy, vdPc, vdResponse>>

VdInit ==
    /\ vdStatus \in VideoStatuses
    /\ vdApproval = "pending"
    /\ vdApprovedBy = NoApprover
    /\ vdPc = [r \in ApproveRequests |-> "idle"]
    /\ vdResponse = [r \in ApproveRequests |-> 0]
    /\ vdChanges = 0

VdPark ==
    /\ vdStatus = "processing"
    /\ vdApproval = "pending"
    /\ vdApprovedBy = NoApprover
    /\ vdPc = [r \in ApproveRequests |-> "idle"]
    /\ vdResponse = [r \in ApproveRequests |-> 0]
    /\ vdChanges = 0

VdNext ==
    \/ \E r \in ApproveRequests : VdFetch(r)
    \/ \E r \in ApproveRequests : VdUpdate(r)
    \/ \E status \in VideoStatuses : VdStatusChange(status)

-----------------------------------------------------------------------------
(***************************************************************************)
(* OpenRouterAdapter.generateCompletion.  The outcomes of its fetch calls  *)
(* are inputs: a response, or a throw (network failure, timeout, abort).   *)
(***************************************************************************)
\* Bound of the model: completion calls in a row
MaxCompletions == 3

HttpStatuses == {400, 401, 404, 429, 500, 503}

\* A fetch resolves with a response or throws; a 400 may carry the message
\* "... is not a valid model ID"
FetchOutcomes ==
    {[kind |-> "ok", status |-> 200, invalidModel |-> FALSE]}
    \cup [kind : {"throws"}, status : {"network", "timeout", "abort"},
          invalidModel : {FALSE}]
    \cup [kind : {"http"}, status : HttpStatuses, invalidModel : BOOLEAN]

NoOutcome == [kind |-> "none", status |-> 0, invalidModel |-> FALSE]

\* GET /models: a usable fallback id, no id, a failure status, or a throw
ModelsOutcomes == {"fallback", "empty", "notok", "throws"}

\* The failure classes of the retry policy
Transient(outcome) ==
    \/ outcome.kind = "throws" /\ outcome.status \in {"network", "timeout"}
    \/ outcome.kind = "http" /\ (outcome.status >= 500 \/ outcome.status = 429)

ClientError(outcome) ==
    /\ outcome.kind = "http"
    /\ outcome.status >= 400 /\ outcome.status < 500
    /\ outcome.status # 429

Cancelled(outcome) == outcome.kind = "throws" /\ outcome.status = "abort"

\* The one condition under which the adapter makes a second POST
RetriesAfter(outcome) ==
    /\ outcome.kind = "http"
    /\ outcome.status = 400
    /\ outcome.invalidModel

\* generateCompletion is called and its first POST settles
LmFirstPost(outcome) ==
    /\ LmOthers
    /\ lmPc \in {"idle", "done"}
    /\ lmCalls < MaxCompletions
    /\ lmCalls' = lmCalls + 1
    /\ lmAttempts' = 1
    /\ lmFailure' = outcome
    /\ lmPc' = IF RetriesAfter(outcome) THEN "models" ELSE "done"
    /\ lmResult' = CASE RetriesAfter(outcome) -> "pending"
                     [] outcome.kind = "ok" -> "returned"
                     [] OTHER -> "thrown"
    /\ UNCHANGED lmRetried

\* The fallback lookup: GET /models
LmModels(models) ==
    /\ LmOthers
    /\ lmPc = "models"
    /\ lmPc' = IF models = "fallback" THEN "retry" ELSE "done"
    /\ lmResult' = IF models = "fallback" THEN lmResult ELSE "thrown"
    /\ UNCHANGED <<lmCalls, lmAttempts, lmFailure, lmRetried>>

\* The second POST, with the fallback model
LmRetryPost(outcome) ==
    /\ LmOthers
    /\ lmPc = "retry"
    /\ lmAttempts' = lmAttempts + 1
    /\ lmRetried' = lmRetried \cup {lmFailure}
    /\ lmFailure' = outcome
    /\ lmPc' = "done"
    /\ lmResult' = IF outcome.kind = "ok" THEN "returned" ELSE "thrown"
    /\ UNCHANGED lmCalls

LmInit ==
    /\ lmPc = "idle"
    /\ lmCalls = 0
    /\ lmAttempts = 0
    /\ lmFailure = NoOutcome
    /\ lmRetried = {}
    /\ lmResult = "none"

LmPark == LmInit

LmNext ==
    \/ \E outcome \in FetchOutcomes : LmFirstPost(outcome)
    \/ \E models \in ModelsOutcomes : LmModels(models)
    \/ \E outcome \in FetchOutcomes : LmRetryPost(outcome)

-----------------------------------------------------------------------------
(***************************************************************************)
(* POST /api/v1/requests/[id]/tasks/[taskId]/retry for one task.  A        *)
(* request reads the task, tests what it read, updates the row and starts  *)
(* the re-execution; other requests run between its database calls.        *)
(***************************************************************************)
\* Bound of the model: concurrent retry requests
MaxRetryRequests == 4

\* task.max_retries ?? 3
maxRetries == 3

RetryRequests == 1 .. MaxRetryRequests

\* The tests made on the task that was read: 0 when the retry goes ahead
RetryCheck(status, retryCount, force) ==
    CASE status # "failed" /\ ~force -> 400
      [] retryCount >= maxRetries /\ ~force -> 400
      [] OTHER -> 0

\* The update's retry_count: the count that was read, plus one
RetryCountWritten(seen, current) == seen + 1

\* select the task, then the two tests
RtFetch(r, force) ==
    LET code == RetryCheck(rtStatus, rtRetryCount, force) IN
    /\ RtOthers
    /\ rtPc[r] = "idle"
    /\ rtForce' = [rtForce EXCEPT ![r] = force]
    /\ rtSeen' = [rtSeen EXCEPT ![r] = rtRetryCount]
    /\ rtPc' = [rtPc EXCEPT ![r] = IF code = 0 THEN "update" ELSE "done"]
    /\ rtResponse' = [rtResponse EXCEPT ![r] = code]
    /\ UNCHANGED <<rtStatus, rtRetryCount, rtAccepted, rtRuns>>

\* update({status: 'pending', retry_count: retryCount + 1}), the event, the
\* start of the re-execution, and the 200 response
RtUpdate(r) ==
    /\ RtOthers
    /\ rtPc[r] = "update"
    /\ rtStatus' = "pending"
    /\ rtRetryCount' = RetryCountWritten(rtSeen[r], rtRetryCount)
    /\ rtAccepted' = IF rtForce[r] THEN rtAccepted ELSE rtAccepted + 1
    /\ rtResponse' = [rtResponse EXCEPT ![r] = 200]
    /\ rtPc' = [rtPc EXCEPT ![r] = "execute"]
    /\ UNCHANGED <<rtSeen, rtForce, rtRuns>>

\* The detached block: the task is read again and agentRunner.runTask starts
RtExecute(r) ==
    /\ RtOthers
    /\ rtPc[r] = "execute"
    /\ rtStatus' = "in_progress"
    /\ rtRuns' = IF rtForce[r] THEN rtRuns ELSE rtRuns + 1
    /\ rtPc' = [rtPc EXCEPT ![r] = "done"]
    /\ UNCHANGED <<rtRetryCount, rtSeen, rtForce, rtResponse, rtAccepted>>

\* A run of the task ends
RtTaskEnds(status) ==
    /\ RtOthers
    /\ rtStatus = "in_progress"
    /\ rtStatus' = status
    /\ UNCHANGED <<rtRetryCount, rtPc, rtSeen, rtForce, rtResponse,
                   rtAccepted, rtRuns>>

RtInit ==
    /\ rtStatus = "failed"
    /\ rtRetryCount \in {0, maxRetries - 1}
    /\ rtPc = [r \in RetryRequests |-> "idle"]
    /\ rtSeen = [r \in RetryRequests |-> 0]
    /\ rtForce = [r \in RetryRequests |-> FALSE]
    /\ rtResponse = [r \in RetryRequests |-> 0]
    /\ rtAccepted = 0
    /\ rtRuns = 0

RtPark ==
    /\ rtStatus = "failed"
    /\ rtRetryCount = 0
    /\ rtPc = [r \in RetryRequests |-> "idle"]
    /\ rtSeen = [r \in RetryRequests |-> 0]
    /\ rtForce = [r \in RetryRequests |-> FALSE]
    /\ rtResponse = [r \in RetryRequests |-> 0]
    /\ rtAccepted = 0
    /\ rtRuns = 0

RtNext ==
    \/ \E r \in RetryRequests, force \in BOOLEAN : RtFetch(r, force)
    \/ \E r \in RetryRequests : RtUpdate(r)
    \/ \E r \in RetryRequests : RtExecute(r)
    \/ \E status \in {"failed", "completed"} : RtTaskEnds(status)

-----------------------------------------------------------------------------
(***************************************************************************)
(* Specifications: one per component, the others stay as constructed       *)
(***************************************************************************)
\* The state after construction, the component under study drawing its inputs
InitKS == KsInit /\ AgPark /\ RhInit /\ CbPark /\ N8Park /\ OrPark /\
    CovPark /\ AuPark /\ SePark /\ InPark /\ SbPark /\ ImPark /\ VdPark /\
    LmPark /\ RtPark
InitAgent == AgInit /\ KsPark /\ RhInit /\ CbPark /\ N8Park /\ OrPark /\
    CovPark /\ AuPark /\ SePark /\ InPark /\ SbPark /\ ImPark /\ VdPark /\
    LmPark /\ RtPark
InitRH == RhInit /\ KsPark /\ AgPark /\ CbPark /\ N8Park /\ OrPark /\
    CovPark /\ AuPark /\ SePark /\ InPark /\ SbPark /\ ImPark /\ VdPark /\
    LmPark /\ RtPark
InitCB == CbInit /\ KsPark /\ AgPark /\ RhInit /\ N8Park /\ OrPark /\
    CovPark /\ AuPark /\ SePark /\ InPark /\ SbPark /\ ImPark /\ VdPark /\
    LmPark /\ RtPark
InitN8 == N8Init /\ KsPark /\ AgPark /\ RhInit /\ CbPark /\ OrPark /\
    CovPark /\ AuPark /\ SePark /\ InPark /\ SbPark /\ ImPark /\ VdPark /\
    LmPark /\ RtPark
InitOr == OrInit /\ KsPark /\ AgPark /\ RhInit /\ CbPark /\ N8Park /\
    CovPark /\ AuPark /\ SePark /\ InPark /\ SbPark /\ ImPark /\ VdPark /\
    LmPark /\ RtPark
InitCov == CovInit /\ KsPark /\ AgPark /\ RhInit /\ CbPark /\ N8Park /\
    OrPark /\ AuPark /\ SePark /\ InPark /\ SbPark /\ ImPark /\ VdPark /\
    LmPark /\ RtPark
InitAu == AuInit /\ KsPark /\ AgPark /\ RhInit /\ CbPark /\ N8Park /\
    OrPark /\ CovPark /\ SePark /\ InPark /\ SbPark /\ ImPark /\ VdPark /\
    LmPark /\ RtPark
InitSe == SeInit /\ KsPark /\ AgPark /\ RhInit /\ CbPark /\ N8Park /\
    OrPark /\ CovPark /\ AuPark /\ InPark /\ SbPark /\ ImPark /\ VdPark /\
    LmPark /\ RtPark
InitIn == InInit /\ KsPark /\ AgPark /\ RhInit /\ CbPark /\ N8Park /\
    OrPark /\ CovPark /\ AuPark /\ SePark /\ SbPark /\ ImPark /\ VdPark /\
    LmPark /\ RtPark
InitSb == SbInit /\ KsPark /\ AgPark /\ RhInit /\ CbPark /\ N8Park /\
    OrPark /\ CovPark /\ AuPark /\ SePark /\ InPark /\ ImPark /\ VdPark /\
    LmPark /\ RtPark
InitIm == ImInit /\ KsPark /\ AgPark /\ RhInit /\ CbPark /\ N8Park /\
    OrPark /\ CovPark /\ AuPark /\ SePark /\ InPark /\ SbPark /\ VdPark /\
    LmPark /\ RtPark
InitVd == VdInit /\ KsPark /\ AgPark /\ RhInit /\ CbPark /\ N8Park /\
    OrPark /\ CovPark /\ AuPark /\ SePark /\ InPark /\ SbPark /\ ImPark /\
    LmPark /\ RtPark
InitLm == LmInit /\ KsPark /\ AgPark /\ RhInit /\ CbPark /\ N8Park /\
    OrPark /\ CovPark /\ AuPark /\ SePark /\ InPark /\ SbPark /\ ImPark /\
    VdPark /\ RtPark
InitRt == RtInit /\ KsPark /\ AgPark /\ RhInit /\ CbPark /\ N8Park /\
    OrPark /\ CovPark /\ AuPark /\ SePark /\ InPark /\ SbPark /\ ImPark /\
    VdPark /\ LmPark

SpecKS == InitKS /\ [][KsNext]_vars

SpecKSW == InitKS /\ [][KsWNext]_vars

SpecAgent == InitAgent /\ [][AgNext]_vars

SpecAgentTools == InitAgent /\ [][AgToolsNext]_vars

SpecAgentTranscript == InitAgent /\ [][AgTranscriptNext]_vars

SpecRH == InitRH /\ [][RhNext]_vars

FairSpecRH == InitRH /\ [][RhNext]_vars /\ RhFairness

SpecCB == InitCB /\ [][CbNext]_vars

SpecCBSeq == InitCB /\ [][CbSeqNext]_vars

SpecN8 == InitN8 /\ [][N8Next]_vars

SpecOr == InitOr /\ [][OrNext]_vars

FairSpecOr == InitOr /\ [][OrNext]_vars /\ OrFairness

SpecCov == InitCov /\ [][CovNext]_vars

SpecAu == InitAu /\ [][AuNext]_vars

SpecSe == InitSe /\ [][SeNext]_vars

SpecIn == InitIn /\ [][InNext]_vars

SpecSb == InitSb /\ [][SbNext]_vars

SpecIm == InitIm /\ [][ImNext]_vars

SpecVd == InitVd /\ [][VdNext]_vars

SpecLm == InitLm /\ [][LmNext]_vars

SpecRt == InitRt /\ [][RtNext]_vars

-----------------------------------------------------------------------------
(***************************************************************************)
(* Properties of the KnowledgeStore                                        *)
(***************************************************************************)

\* The step is a write whose expectedVersion is given and differs from the
\* current version of the document at its path
StaleWriteStep ==
    /\ ksCall'.op = "write"
    /\ ksResult'.op = "write"
    /\ ksCall'.expectedVersion # Undefined
    /\ ksCall'.expectedVersion # CurrentVersion(documents, ksCall'.path)

\* C1 (as stated): for any path, a write whose expectedVersion differs from
\* the document's current version leaves the store unchanged and returns
\* VERSION_CONFLICT carrying the true current version.
C1_Original ==
    [][StaleWriteStep =>
            /\ documents' = documents
            /\ ksResult'.code = "VERSION_CONFLICT"
            /\ ksResult'.version = CurrentVersion(documents, ksCall'.path)]_vars

\* C1 (amended): a write whose expectedVersion differs from the document's
\* current version never changes the store (content, version, existence of
\* every document); when its path is well-formed and its content is within
\* maxDocumentSize it returns VERSION_CONFLICT carrying the true current
\* version and the rejected expectedVersion, otherwise it returns the
\* validation error (INVALID_PATH or CONTENT_TOO_LARGE) that is checked first.
C1_StaleWriteRejected ==
    [][StaleWriteStep =>
            /\ documents' = documents
            /\ ~ksResult'.success
            /\ IF isValidPath(ksCall'.path)
                  /\ Len(ksCall'.content) <= maxDocumentSize
               THEN /\ ksResult'.code = "VERSION_CONFLICT"
                    /\ ksResult'.version
                          = CurrentVersion(documents, ksCall'.path)
                    /\ ksResult'.currentVersion
                          = CurrentVersion(documents, ksCall'.path)
                    /\ ksResult'.expectedVersion = ksCall'.expectedVersion
               ELSE ksResult'.code \in {"INVALID_PATH", "CONTENT_TOO_LARGE"}]_vars

\* C1 witness: a stale write to an existing document has been rejected
C1_Witness ==
    /\ ksResult.op = "write"
    /\ ksResult.code = "VERSION_CONFLICT"
    /\ ksResult.path \in DOMAIN documents
    /\ ksResult.currentVersion = 2
    /\ ksResult.expectedVersion = 1

\* C2 (as stated): over any sequence of store operations the N-th successful
\* write to a path returns version N (versions start at 1, grow by 1 per
\* successful write, are never reused or rolled back).
C2_NthWriteVersionN ==
    (ksResult.op = "write" /\ ksResult.success)
        => ksResult.version = nWrites[ksResult.path]

C3_OneSucceeds ==
    \A w1 \in Writers, w2 \in Writers :
        ( /\ w1 # w2
          /\ wPc[w1] = "done" /\ wPc[w2] = "done"
          /\ wPath[w1] = wPath[w2] /\ wExp[w1] = wExp[w2]
          /\ Len(wContent[w1]) <= maxDocumentSize
          /\ Len(wContent[w2]) <= maxDocumentSize )
        => (wRes[w1].success \/ wRes[w2].success)

-----------------------------------------------------------------------------
(***************************************************************************)
(* Properties of the BaseAgent loop                                        *)
(***************************************************************************)

\* C4: one runAgentLoop makes at most maxIterations (50) model calls; it
\* returns normally only on a turn that ended (end_turn, no tool calls); and
\* when the 50 calls were made without the model ending its turn the loop
\* raises AGENT_LOOP_DETECTED (which is raised in no other case).
C4_LoopBounded ==
    /\ iterations <= maxIterations
    /\ loopCalls <= maxIterations
    /\ loopOutcome = "returned"
          => (response.stopReason = "end_turn" /\ response.tools = 0)
    /\ ( /\ loopPc = "done"
         /\ loopCalls = maxIterations
         /\ loopOutcome # "LLM_API_ERROR"
         /\ ~(response.stopReason = "end_turn" /\ response.tools = 0) )
          => loopOutcome = "AGENT_LOOP_DETECTED"
    /\ loopOutcome = "AGENT_LOOP_DETECTED"
          => (loopCalls = maxIterations /\ iterations = maxIterations)

\* C4 witness: 50 calls were made, the last turn still asked for a tool, and
\* the loop ended with AGENT_LOOP_DETECTED
C4_Witness ==
    /\ loopPc = "done"
    /\ loopCalls = maxIterations
    /\ response.tools > 0
    /\ loopOutcome = "AGENT_LOOP_DETECTED"

\* C5 (as stated): every model call, successful or failed, is counted, so
\* the number of requests an agent has sent never exceeds maxCalls.
C5_EveryCallCounted ==
    /\ loopPc # "calling" => llmCalls = callsMade
    /\ llmCalls <= maxCalls

\* C5 (the part that holds): a call attempted with callsMade >= maxCalls
\* ends with AGENT_BUDGET_EXCEEDED and sends nothing
C5_BudgetCheckedFirst ==
    /\ callsMade <= maxCalls
    /\ loopOutcome = "AGENT_BUDGET_EXCEEDED" => callsMade = maxCalls

-----------------------------------------------------------------------------
(***************************************************************************)
(* Properties of the ResponseHandler                                       *)
(***************************************************************************)

\* State part of C6: a call's resolve() is invoked at most once, a call is
\* resolved exactly when it was invoked once, and a question that is still
\* in the pending map belongs to a call that is not resolved yet
C6_ResolvedOnce ==
    /\ \A c \in CallIds :
          /\ resolveCount[c] <= 1
          /\ (callState[c] = "resolved") <=> (resolveCount[c] = 1)
    /\ \A k \in DOMAIN pendingQuestions :
          callState[pendingQuestions[k].call] = "suspended"

\* Step part of C6: the resolution that comes second is a no-op (a resolved
\* call keeps its result and is never resolved again), and a submitResponse
\* with no matching pending question returns false and changes nothing
C6_SecondIsNoOp ==
    /\ \A c \in CallIds : callState[c] = "resolved" =>
          /\ callState'[c] = "resolved"
          /\ callResult'[c] = callResult[c]
          /\ resolveCount'[c] = resolveCount[c]
    /\ ( /\ rhCall'.op = "submitResponse"
         /\ rhCall'.key \notin DOMAIN pendingQuestions )
          => /\ rhReturn' = "false"
             /\ UNCHANGED <<pendingQuestions, callState, callResult, timer,
                            resolveCount>>

\* C6: each pending question is resolved exactly once, by the answer or by
\* the timeout, whichever comes first; the other one is a no-op, and an
\* answer with no matching pending question changes nothing.
C6_ExactlyOneResolution == []C6_ResolvedOnce /\ [][C6_SecondIsNoOp]_vars

\* C6 witness: call 1 was resolved by its timeout, and the answer that came
\* afterwards for the same question was refused
C6_Witness ==
    /\ callState[1] = "resolved"
    /\ callResult[1].timedOut
    /\ timer[1] = "fired"
    /\ rhCall.op = "submitResponse"
    /\ rhCall.key = callKey[1]
    /\ rhReturn = "false"
    /\ callState[2] = "unused"

\* C7 (as stated): for any sequence of waitForResponse, submitResponse,
\* cancel, cancelSession and timer events, every suspended waitForResponse
\* call is eventually unblocked.
C7_EveryWaitUnblocked ==
    \A c \in CallIds : (callState[c] = "suspended") ~> (callState[c] = "resolved")

\* C7 restricted to question keys that are never registered while still
\* pending: every suspended call is then eventually unblocked
C7_UniqueKeyUnblocked ==
    \A c \in CallIds :
        (callState[c] = "suspended") ~> (callState[c] = "resolved" \/ dupSeen)


-----------------------------------------------------------------------------
(***************************************************************************)
(* CircuitBreaker properties                                               *)
(***************************************************************************)

\* The instance the last sequential execute() call ran on
CbLastInst == cbInst[1]

\* C8: counting from Closed with failure count 0, once no call is in flight
\* the breaker is Open if threshold or more consecutive calls have failed,
\* it is Closed after any smaller number of consecutive failures, and its
\* failure count is that number.
C8_TripsAtThreshold ==
    (CbQuiet /\ cbOutcome[1] # "none") =>
        /\ cbStreak[CbLastInst] >= threshold => cbState[CbLastInst] = "OPEN"
        /\ cbStreak[CbLastInst] < threshold => cbState[CbLastInst] = "CLOSED"
        /\ cbFailures[CbLastInst] = cbStreak[CbLastInst]

\* The threshold-th consecutive failure has just opened the breaker
C8_Witness ==
    /\ CbQuiet
    /\ cbOutcome[1] = "error"
    /\ cbStreak[CbLastInst] = threshold
    /\ cbState[CbLastInst] = "OPEN"

\* Call c decides, on an Open breaker whose last failure is younger than
\* resetTimeout
OpenCheckStep(c) ==
    /\ cbPc[c] = "check"
    /\ cbPc'[c] # "check"
    /\ cbState[cbInst[c]] = "OPEN"
    /\ cbLastFailure[cbInst[c]] # Null
    /\ now - cbLastFailure[cbInst[c]] < resetTimeout

\* C9: an execute() call that finds the breaker Open before resetTimeout has
\* elapsed since the last failure ends with the circuit-open error, and the
\* wrapped function is not invoked (the call never gets to run it).
C9_OpenFailsFast ==
    [][\A c \in Calls :
          OpenCheckStep(c) =>
              /\ cbPc'[c] = "idle"
              /\ cbOutcome'[c] = "CIRCUIT_OPEN"
              /\ cbState' = cbState]_vars

\* A call was turned away by an Open breaker within resetTimeout
C9_Witness ==
    \E c \in Calls :
        /\ cbPc[c] = "idle"
        /\ cbOutcome[c] = "CIRCUIT_OPEN"
        /\ cbState[cbInst[c]] = "OPEN"
        /\ now - cbLastFailure[cbInst[c]] < resetTimeout

\* C10: while a HalfOpen probe is in flight no other call invokes the
\* wrapped function.
C10_SingleProbe == ~cbOverlap


\* The fn of call c, a HALF_OPEN probe, settles
ProbeSettles(c) ==
    /\ cbPc[c] = "running"
    /\ cbProbe[c]
    /\ cbPc'[c] = "persist2"

\* Call c decides after a probe has failed (more than threshold consecutive
\* failures) on the breaker of its instance
AfterFailedProbeStep(c) ==
    /\ cbPc[c] = "check"
    /\ cbPc'[c] # "check"
    /\ cbStreak[cbInst[c]] > threshold

\* What a probe leaves behind, and what the calls after a failed probe get
C11_ProbeStep ==
    \A c \in Calls :
        LET i == cbInst[c] IN
        /\ (ProbeSettles(c) /\ cbOutcome'[c] = "result") =>
              (cbState'[i] = "CLOSED" /\ cbFailures'[i] = 0)
        /\ (ProbeSettles(c) /\ cbOutcome'[c] = "error") =>
              (cbState'[i] = "OPEN" /\ cbLastFailure'[i] = now)
        /\ (AfterFailedProbeStep(c) /\ now - cbFailAt[i] <= resetTimeout) =>
              (cbPc'[c] = "idle" /\ cbOutcome'[c] = "CIRCUIT_OPEN")
        /\ (AfterFailedProbeStep(c) /\ now - cbFailAt[i] > resetTimeout) =>
              (cbPc'[c] = "running" /\ cbProbe'[c])

\* C11: a HalfOpen probe that succeeds leaves the breaker Closed with failure
\* count 0; one that fails leaves it Open, and from then on every call is
\* turned away with the circuit-open error while no more than resetTimeout
\* has passed since that failure, and the first call after that is let
\* through as the next probe.
C11_ProbeOutcome == [][C11_ProbeStep]_vars

\* A probe has failed, a call was turned away, and a further resetTimeout
\* later the next probe is running
C11_Witness ==
    /\ cbStreak[CbLastInst] > threshold
    /\ cbPc[1] = "running"
    /\ cbProbe[1]
    /\ now - cbFailAt[CbLastInst] > resetTimeout


-----------------------------------------------------------------------------
(***************************************************************************)
(* n8n callback properties                                                 *)
(***************************************************************************)

\* C12: the handler of a callback that arrives when the task is already
\* completed or failed applies no side effect (no task update, no
\* provider-metadata row, no event, no orchestrator resume), and a signed,
\* complete callback for that task is answered with HTTP 200 and success.
C12_TerminalIsNoOp ==
    \A d \in Deliveries :
        n8Terminal[d] =>
            /\ n8Applied[d] = {}
            /\ taskStatus \in TerminalStatuses
            /\ (n8Pc[d] = "done" /\ n8Payload[d] \in GoodPayloads
                    /\ n8Payload[d].known)
                  => n8Response[d] = Http(200, TRUE)

\* A second delivery of a callback that was already processed has been
\* answered
C12_Witness ==
    \E d, e \in Deliveries :
        /\ n8Applied[e] # {}
        /\ n8Pc[e] = "done"
        /\ n8Payload[d] = n8Payload[e]
        /\ n8Terminal[d]
        /\ n8Pc[d] = "done"
        /\ n8Response[d] = Http(200, TRUE)

\* C13: of the deliveries of one callback at most one applies the task
\* update, the completion or failure event, the provider-metadata insert and
\* the orchestrator resume.
C13_AppliedAtMostOnce ==
    \A d, e \in Deliveries :
        (d # e /\ n8Payload[d] = n8Payload[e]) =>
            n8Applied[d] \cap n8Applied[e] = {}


-----------------------------------------------------------------------------
(***************************************************************************)
(* Orchestrator properties                                                 *)
(***************************************************************************)

RunInProgress == orPc \notin {"idle", "done"}

ActivePhases == {ph \in Phases : phaseStatus[ph] = "active"}

IncompleteCoverageStep ==
    /\ orPc = "validate"
    /\ orPc' # "validate"
    /\ lastCoverage' = "incomplete"

\* An incomplete first validation goes back to architecture and re-runs the
\* agent; the re-run is followed by the second validation
C15_Step ==
    /\ IncompleteCoverageStep =>
            (smPhase' = "architecture" /\ orPc' = "rerun")
    /\ (orPc = "rerun" /\ orPc' # "rerun") => orPc' = "revalidate"

\* C15: a first validation that finds coverage incomplete does not fail the
\* run: the state machine goes back to architecture and the architecture
\* agent is re-run, after which coverage is validated again; a run fails in
\* plan_validation only after a second validation found coverage incomplete;
\* and building is entered only when the plan covers every requirement.
C15_BackToArchitecture ==
    /\ [][C15_Step]_vars
    /\ []((orPc = "done" /\ orPhase = "plan_validation") =>
              (backCount >= 1 /\ lastCoverage = "incomplete"))
    /\ [](phaseStatus["building"] # "pending" =>
              (reqDoc /\ planDoc # NoPlan /\ Reqs \subseteq planDoc))

\* The re-run repaired the plan and building was entered
C15_Witness ==
    /\ backCount >= 1
    /\ lastCoverage = "complete"
    /\ "architecture" \in {smHistory[k] : k \in DOMAIN smHistory}
    /\ orPhase = "building"

\* C16: the verification phase is not completed, and neither deployment nor
\* complete is entered, while the latest verification result is a failure.
C16_ReverifiedBeforeAdvancing ==
    (\/ phaseStatus["verification"] = "completed"
     \/ phaseStatus["deployment"] # "pending"
     \/ smPhase = "complete")
        => lastVerification = "passed"

\* C17: a run requests at most two backward transitions and enters at most
\* ten phases, and every run reaches complete or failed.
C17_BoundedBackTransitions ==
    /\ [](backCount <= 2 /\ Len(smHistory) <= 10)
    /\ <>(smPhase \in {"complete", "failed"})

\* A run with both backward transitions has ended
C17_Witness ==
    /\ backCount = 2
    /\ smPhase \in {"complete", "failed"}
    /\ orPc = "done"

\* C18: a run that ends on an error is in failed, and the failure event and
\* the returned result both carry the files and documents produced so far.
C18_FailureKeepsArtifacts ==
    (orPc = "done" /\ ~orResult.success) =>
        /\ smPhase = "failed"
        /\ terminalEvent.type = "generation:failed"
        /\ terminalEvent.files = orFiles
        /\ terminalEvent.documents = DocumentCount
        /\ orResult.files = orFiles
        /\ orResult.documents = DocumentCount

\* Position of the first entry of phase ph in the history (0: never entered)
FirstEntry(ph) ==
    IF \E k \in DOMAIN smHistory : smHistory[k] = ph
    THEN CHOOSE k \in DOMAIN smHistory :
            /\ smHistory[k] = ph
            /\ \A j \in 1 .. (k - 1) : smHistory[j] # ph
    ELSE 0

FixedOrder == <<"intake", "research", "architecture", "plan_validation",
                "building", "verification">>

\* C20: a run that is complete has entered intake, research, architecture,
\* plan_validation, building and verification, first in this order, then
\* deployment exactly when deployment is not skipped, and requested only
\* transitions of the transition table.
C20_FixedPhaseOrder ==
    smPhase = "complete" =>
        /\ \A k \in DOMAIN FixedOrder : FirstEntry(FixedOrder[k]) > 0
        /\ \A k \in 1 .. (Len(FixedOrder) - 1) :
                FirstEntry(FixedOrder[k]) < FirstEntry(FixedOrder[k + 1])
        /\ (FirstEntry("deployment") > 0) = ~skipDeploy
        /\ ~smIllegal


TerminalEvents == {"generation:completed", "generation:failed"}

FeedEvents == {sseFeed[k] : k \in DOMAIN sseFeed}

-----------------------------------------------------------------------------
(***************************************************************************)
(* Plan coverage                                                           *)
(***************************************************************************)
\* No id occurs twice in the list
NoRepeats(seq) == \A i, j \in DOMAIN seq : seq[i] = seq[j] => i = j

\* The ids of a list
Ids(seq) == {seq[i] : i \in DOMAIN seq}

\* round(100 * c / r), a half rounded up
RoundedPercent(c, r) == (200 * c + r) \div (2 * r)

\* The documents were found and validatePlanCoverage has returned
Validated == covFound /\ covResult # NoCoverage

\* C21: for R >= 1 distinct requirements of which the plan's tasks reference
\* C (and nothing else), the result has percentage = round(100 * C / R) and
\* isComplete = (C = R).
C21_PercentageOfCovered ==
    (/\ Validated
     /\ Len(covReqs) >= 1
     /\ NoRepeats(covReqs)
     /\ CoveredReqs(covTasks) \subseteq Ids(covReqs)) =>
        LET R == Len(covReqs)
            C == Cardinality(CoveredReqs(covTasks))
        IN  /\ covResult.percentage = RoundedPercent(C, R)
            /\ covResult.isComplete = (C = R)

\* Every requirement is referenced by some task of the plan
EveryReqCovered == Ids(covReqs) \subseteq CoveredReqs(covTasks)

\* C22: isComplete holds exactly when every requirement is referenced by a
\* task, which is exactly when percentage is 100 and gaps is empty; otherwise
\* gaps lists exactly the ids of the requirements no task references.
C22_ResultConsistent ==
    Validated =>
        /\ covResult.isComplete = EveryReqCovered
        /\ EveryReqCovered =
                (covResult.percentage = 100 /\ covResult.gaps = <<>>)
        /\ ~EveryReqCovered =>
                Ids(covResult.gaps) = Ids(covReqs) \ CoveredReqs(covTasks)

-----------------------------------------------------------------------------
(***************************************************************************)
(* Agent loop: tool errors, loop-level failures, end of the loop           *)
(***************************************************************************)
\* The latest processed turn had a tool call that threw, failed or named no
\* tool
ToolFailed(r) == \E k \in DOMAIN r.calls : r.calls[k] # "ok"

\* A turn is processed: the only step that counts a call
TurnProcessed == loopPc = "calling" /\ callsMade' # callsMade

\* A turn with a failing tool call leaves the loop at its top, nothing thrown
\* and nothing returned
C23_Step ==
    (TurnProcessed /\ ToolFailed(response')) =>
        /\ loopPc' = "top"
        /\ loopOutcome' = loopOutcome
        /\ agResult' = agResult
        /\ agStatus' = agStatus

\* At the top of the loop after a turn with a failing tool call, the next
\* model call is made unless a loop-level limit is reached
C23_Continues ==
    (loopPc = "top" /\ ToolFailed(response)) =>
        /\ loopOutcome = "none"
        /\ (LoopContinues(iterations) /\ ~BudgetExhausted(callsMade, maxCalls))
                => ENABLED LoopCallLLM
        /\ Len(agPushed) = 2
        /\ agPushed[2].role = "user"
        /\ Len(agPushed[2].content) = response.tools
        /\ \A k \in DOMAIN response.calls :
                /\ agPushed[2].content[k].type = "tool_result"
                /\ agPushed[2].content[k].is_error = (response.calls[k] # "ok")

\* C23: a tool call that throws, fails or names an unknown tool does not end
\* the loop: its result is pushed as a tool_result with is_error set, and
\* the loop goes on to the next model call.
C23_ToolErrorsSurfaced == []C23_Continues /\ [][C23_Step]_vars

\* The model was called again after a turn whose tool call threw
C23_Witness ==
    /\ loopPc = "calling"
    /\ loopCalls >= 2
    /\ \E k \in DOMAIN response.calls : response.calls[k] = "threw"
    /\ agPushed[2].content[1].is_error

LoopFailures == {"AGENT_BUDGET_EXCEEDED", "AGENT_LOOP_DETECTED", "LLM_API_ERROR"}

\* C24: when the loop ends on a loop-level failure, run() has returned a
\* result with success false whose error names that failure.
C24_FailureIdentified ==
    (loopPc = "done" /\ loopOutcome \in LoopFailures) =>
        /\ agResult.returned
        /\ ~agResult.success
        /\ \/ agResult.error.code = loopOutcome
           \/ agResult.error.message = loopOutcome

\* C25 as steps: a turn without tool calls ends the loop and its text is
\* returned; a further model call follows only a turn with a tool call
C25_Step ==
    /\ (TurnProcessed /\ response'.tools = 0) =>
            /\ loopPc' = "done"
            /\ loopOutcome' = "returned"
            /\ agResult'.response = response'.text
    /\ (loopPc = "top" /\ loopPc' = "calling" /\ loopCalls >= 1) =>
            response.tools > 0

\* C25: the loop returns, with that turn's text, on the first turn without
\* tool calls, and calls the model again only after a turn that requested a
\* tool.
C25_EndsOnFirstPlainTurn == [][C25_Step]_vars

-----------------------------------------------------------------------------
(***************************************************************************)
(* Properties of ask_user                                                  *)
(***************************************************************************)
\* The ask_user call has returned to the agent after a wait that no answer
\* ended
AskTimedOut == auPc = "done" /\ auTimedOut

\* C26: an ask_user call that gets no answer within the timeout (120 s by
\* default) returns a result to the agent, without throwing, that is marked
\* as timed out, so that the agent can tell it from an answer
C26_TimeoutMarked ==
    AskTimedOut =>
        /\ auResult.returned
        /\ auResult.timedOut = "true"
        /\ auWaited = defaultTimeout

-----------------------------------------------------------------------------
(***************************************************************************)
(* Properties of the SessionManager                                        *)
(***************************************************************************)
\* A step of an aborted session: the run makes no further step and the
\* session, while it is kept, stays aborted
C27_Step ==
    seAborted =>
        /\ seProgress' = seProgress
        /\ sePresent' => seStatus' = "aborted"

\* C27: after an explicit abort of an active session the in-flight run
\* stops, the session's status becomes (and stays) aborted, and the session
\* with what the run has produced remains retrievable
C27_AbortStopsRun == [][C27_Step]_vars

\* The time at which the session is due for deletion: its completion plus
\* the grace period or its maximum age, whichever comes first
EvictionDue ==
    IF seCompletedAt # Never /\
       seCompletedAt + completedGrace < seCreatedAt + maxSessionAge
    THEN seCompletedAt + completedGrace
    ELSE seCreatedAt + maxSessionAge

\* C28: a session stays retrievable until its completion plus the grace
\* period or until its maximum age, whichever comes first, and is deleted
\* by the cleanup that follows: not earlier, and it is never kept for longer
C28_EvictedWhenDue ==
    /\ seEvictedAt # Never => seEvictedAt >= EvictionDue
    /\ sePresent => seNow <= EvictionDue + cleanupIntervalMs

-----------------------------------------------------------------------------
(***************************************************************************)
(* Properties of the CircuitBreaker whose store fails                      *)
(***************************************************************************)
\* A breaker that is kept in memory only: the test execute() makes before
\* it runs the function
MemCheck(state, last, t) ==
    IF state # "OPEN" THEN [state |-> state, runs |-> TRUE]
    ELSE IF t - (IF last = Null THEN 0 ELSE last) > resetTimeout
         THEN [state |-> "HALF_OPEN", runs |-> TRUE]
         ELSE [state |-> "OPEN", runs |-> FALSE]

\* A breaker that is kept in memory only: the function has settled
MemSettle(state, failures, ok, t) ==
    IF ok THEN <<"CLOSED", 0, Null>>
    ELSE <<IF state = "HALF_OPEN" \/ failures + 1 >= threshold
           THEN "OPEN" ELSE state,
           failures + 1, t>>

BreakerFields(i) == <<cbState[i], cbFailures[i], cbLastFailure[i]>>
BreakerFieldsAfter(i) == <<cbState'[i], cbFailures'[i], cbLastFailure'[i]>>

\* One step of an execute() call on instance i whose store fails
MemStep(i) ==
    LET m == MemCheck(cbState[i], cbLastFailure[i], now) IN
    CASE cbPc[1] = "idle" ->
            \* loadStatus fails: nothing is loaded, execute goes on
            /\ BreakerFieldsAfter(i) = BreakerFields(i)
            /\ cbPc'[1] = "check"
      [] cbPc[1] = "check" ->
            /\ BreakerFieldsAfter(i) = <<m.state, cbFailures[i], cbLastFailure[i]>>
            /\ IF m.runs THEN cbPc'[1] = "running"
               ELSE cbPc'[1] = "idle" /\ cbOutcome'[1] = "CIRCUIT_OPEN"
      [] cbPc[1] = "running" ->
            \* the function's own outcome is what the caller gets
            /\ cbOutcome'[1] \in {"result", "error"}
            /\ BreakerFieldsAfter(i) =
                    MemSettle(cbState[i], cbFailures[i],
                              cbOutcome'[1] = "result", now)
      [] OTHER ->
            \* persistStatus fails: the outcome stands
            /\ BreakerFieldsAfter(i) = BreakerFields(i)
            /\ cbOutcome'[1] = cbOutcome[1]

C29_Step ==
    ~redisUp /\ now' = now =>
        /\ MemStep(cbInst'[1])
        /\ \A j \in Breakers \ {cbInst'[1]} :
                BreakerFieldsAfter(j) = BreakerFields(j)

\* C29: when every load and store of the breaker's status fails, execute()
\* still runs the wrapped function, the breaker goes through the states and
\* failure counts of a breaker kept in memory only, and the caller gets the
\* function's result or error or the rejection of an open breaker, never an
\* error of the store
C29_RunsInMemory ==
    /\ [][C29_Step]_vars
    /\ [](~redisUp =>
            cbOutcome[1] \in {"none", "result", "error", "CIRCUIT_OPEN"})

\* The store fails, the breaker has opened after its failures and, the
\* reset timeout over, runs the function as a probe
C29_Witness ==
    /\ ~redisUp
    /\ cbPc[1] = "running"
    /\ cbProbe[1]
    /\ cbFailures[cbInst[1]] >= threshold

-----------------------------------------------------------------------------
(***************************************************************************)
(* Properties of the checkpoints                                           *)
(***************************************************************************)
\* The checkpoints that carry the name of phase ph
CheckpointsOf(ph) ==
    {k \in DOMAIN orCheckpoints : orCheckpoints[k].tag = ph}

\* C30: every completed phase has exactly one checkpoint of the knowledge
\* store that is tagged with the phase's name, taken before the next phase
\* starts, so that a run can be resumed from the last completed phase
C30_CheckpointPerPhase ==
    \A ph \in Phases :
        phaseStatus[ph] = "completed" => Cardinality(CheckpointsOf(ph)) = 1

-----------------------------------------------------------------------------
(***************************************************************************)
(* The signature of a callback                                             *)
(***************************************************************************)
\* C31: a callback whose signature header is missing or is not the
\* HMAC-SHA256 of the raw body under the webhook secret is answered with
\* 401 and causes no task update, no event and no orchestrator resume
C31_UnsignedRejected ==
    \A d \in Deliveries :
        (n8Pc[d] # "idle" /\ n8Payload[d].signature # "valid") =>
            /\ n8Pc[d] = "done"
            /\ n8Response[d] = Http(401, FALSE)
            /\ n8Applied[d] = {}

-----------------------------------------------------------------------------
(***************************************************************************)
(* The documents of a run                                                  *)
(***************************************************************************)
\* C32: after the intake phase has completed successfully the store holds
\* the requirements document at its path with version 1, and the later
\* phases find it (and the plan) at the paths they read
C32_RequirementsStored ==
    inHermes = "success" =>
        /\ ReadFinds(inStore, RequirementsPath)
        /\ inStore[RequirementsPath].version = 1
        /\ inAthenaRead # "null"

-----------------------------------------------------------------------------
(***************************************************************************)
(* Properties of the MemorySandbox                                         *)
(***************************************************************************)
\* A writeFile call reports a creation exactly when the file it writes was
\* not in the sandbox, and an update otherwise
C33_Step ==
    sbCall'.op = "writeFile" /\ sbOps' # sbOps =>
        LET event == sbEvents'[Len(sbEvents')]
            isNew == NormalizePath(sbCall'.path) \notin DOMAIN sbFiles
        IN  /\ Len(sbEvents') = Len(sbEvents) + 1
            /\ event.type = IF isNew THEN "file:created" ELSE "file:updated"

\* C33: over any sequence of writeFile calls, file:created is emitted
\* exactly for the writes that create a file not yet in the sandbox, and
\* file:updated for the writes to a file that is already there
C33_OneCreatedPerFile == [][C33_Step]_vars

-----------------------------------------------------------------------------
(***************************************************************************)
(* Properties of the campaign budget                                       *)
(***************************************************************************)
Answered(code) == {r \in ImageRequests : imResponse[r] = code}

\* A request is answered 402 exactly when its estimated cost does not fit
\* what is left of the budget at its reservation
C34_Step ==
    \A r \in ImageRequests :
        (imPc[r] = "idle" /\ imPc'[r] # "idle") =>
            ((imUsed + imReserved + imCost > budgetLimit)
                <=> imResponse'[r] = 402)

\* The budget is not overrun and a rejected request reaches no provider;
\* of the $0.04 requests against the untouched $0.10 budget, all answered
\* and none failed at the provider, exactly two have succeeded
C34_Budget ==
    /\ imUsed + imReserved <= budgetLimit
    /\ \A r \in Answered(402) : imProvider[r] = 0
    /\ Cardinality(Answered(200)) * imCost <= budgetLimit
    /\ (/\ imCost = dalleCost
        /\ imBase = 0
        /\ \A r \in ImageRequests : imPc[r] = "done"
        /\ Answered(500) = {}) =>
            Cardinality(Answered(200)) = 2

Reserving == {r \in ImageRequests : imProvider[r] > 0}

-----------------------------------------------------------------------------
(***************************************************************************)
(* Properties of the video approval                                        *)
(***************************************************************************)
\* An approve request is answered with success only when the video is
\* completed and not yet approved
C35_Step ==
    \A r \in ApproveRequests :
        (vdResponse[r] # 200 /\ vdResponse'[r] = 200) =>
            (vdStatus = "completed" /\ vdApproval # "approved")

\* C35: an approval is recorded only while the video is completed, and at
\* most once: an approve request succeeds only if the video is completed and
\* not yet approved, every further approve is rejected
C35_ApprovedOnce == [][C35_Step]_vars

-----------------------------------------------------------------------------
(***************************************************************************)
(* Properties of the adapter's retry                                       *)
(***************************************************************************)
\* A further attempt of the same call follows a transient failure only
C36_Step ==
    /\ lmAttempts' <= 3
    /\ (lmAttempts' > lmAttempts /\ lmAttempts >= 1) =>
            (Transient(lmFailure) /\ ~ClientError(lmFailure)
                /\ ~Cancelled(lmFailure))

\* C36: one outbound call makes at most 3 attempts in total, retries only
\* transient failures (timeout, 5xx, network, 429), and never retries an
\* explicit client error (another 4xx) or a cancelled call
C36_RetriesTransientOnly == [][C36_Step]_vars

-----------------------------------------------------------------------------
(***************************************************************************)
(* Properties of the task retry                                            *)
(***************************************************************************)
\* A retry without force is accepted only while the task is failed and its
\* retry_count is below max_retries, and such retries and their
\* re-executions number at most max_retries
C38_Step ==
    /\ rtAccepted' <= maxRetries
    /\ rtRuns' <= maxRetries
    /\ rtAccepted' > rtAccepted =>
            (rtStatus = "failed" /\ rtRetryCount < maxRetries)

\* C38: without force a task is retried only when it is failed and its
\* retry_count is below max_retries; under any interleaving of concurrent
\* retry requests the accepted retries without force, and their
\* re-executions, never exceed max_retries
C38_RetriesBounded == [][C38_Step]_vars

-----------------------------------------------------------------------------
(***************************************************************************)
(* Properties of the session status                                        *)
(***************************************************************************)
\* The status left by a step: a failed or aborted session does not become
\* completed, and a run that ended without success leaves no completed
\* session
C39_Step ==
    /\ seStatus \in {"failed", "aborted"} => seStatus' # "completed"
    /\ (seRun = "running" /\ seRun' \in {"failed", "threw"} /\ sePresent) =>
            seStatus' \in {"failed", "aborted"}

\* C39: a session is active while its run is in progress and afterwards
\* holds the terminal status of the outcome (completed, failed or aborted);
\* a failed or aborted session never becomes completed
C39_TerminalStatus == [][C39_Step]_vars

-----------------------------------------------------------------------------
(***************************************************************************)
(* Properties of the transcript                                            *)
(***************************************************************************)
\* The tool-use requests of a message
ToolUsesOf(message) ==
    SelectSeq(message.content, LAMBDA b : b.type = "tool_use")

\* C40: in the messages pushed for a turn, and so in the transcript sent
\* with the next model call, an assistant message with tool-use requests is
\* directly followed by one user message holding exactly one tool_result
\* per request, in request order and with the request's id; an assistant
\* message without requests is followed by no user message
C40_ToolResultsPaired ==
    agPushed # <<>> =>
        /\ agPushed[1].role = "assistant"
        /\ IF ToolUsesOf(agPushed[1]) = <<>>
           THEN Len(agPushed) = 1
           ELSE /\ Len(agPushed) = 2
                /\ agPushed[2].role = "user"
                /\ Len(agPushed[2].content) = Len(ToolUsesOf(agPushed[1]))
                /\ Len(ToolUsesOf(agPushed[1])) = response.tools
                /\ \A k \in DOMAIN agPushed[2].content :
                        /\ agPushed[2].content[k].type = "tool_result"
                        /\ agPushed[2].content[k].tool_use_id =
                                ToolUsesOf(agPushed[1])[k].id

\* The model is called again with a transcript that ends in a turn of two
\* tool requests and their two results
C40_Witness ==
    /\ loopPc = "calling"
    /\ loopCalls >= 2
    /\ Len(agPushed) = 2
    /\ Len(agPushed[2].content) = 2
    /\ agPushed[2].content[2].tool_use_id = ToolUseId(2)

=============================================================================
